---- MODULE Spec2Model ----
(***************************************************************************)
(* Rating and ranking engine of wordlebot (src/utils.js): points,          *)
(* calculateElo, calcEloIterated, calcMapElos and calculateLeaderboard.    *)
(*                                                                         *)
(* Numbers.  A JavaScript Number of the Elo engines is a fixed-point       *)
(* integer counting units of 1/Scale, every division and every product     *)
(* rounded to the nearest unit; Math.log, Math.exp, Math.log10 and         *)
(* Math.pow are series evaluated in that arithmetic.  The Average engine   *)
(* uses only + - * / and max, and is computed exactly, over rationals      *)
(* <<numerator, denominator>> in lowest terms.                             *)
(***************************************************************************)
EXTENDS Integers, Sequences, FiniteSets, TLC

-----------------------------------------------------------------------------
(* Fixed-point arithmetic of the Elo engines *)

\* units per 1.0; a multiple of 10 and of 12, so every points() value is exact
Scale == 12 * 1000

Abs(x) == IF x < 0 THEN -x ELSE x

\* a / b for an integer b > 0, rounded to the nearest integer, halves away from 0
RoundDiv(a, b) ==
  IF a >= 0 THEN (a + b \div 2) \div b ELSE -((-a + b \div 2) \div b)

\* the product of two fixed-point numbers
Mul(a, b) == RoundDiv(a * b, Scale)

\* the quotient of two fixed-point numbers, b # 0
Div(a, b) ==
  LET pa == Abs(a)
      pb == Abs(b)
      q == (pa \div pb) * Scale + RoundDiv((pa % pb) * Scale, pb)
  IN IF (a < 0) = (b < 0) THEN q ELSE -q

\* the fixed-point number of an integer
Fix(n) == n * Scale

\* the literal 0.5
Half == Scale \div 2

Ln2 == RoundDiv(693147 * 12, 1000)
Ln10 == RoundDiv(2302585 * 12, 1000)
Sqrt2Hi == RoundDiv(1414214 * 12, 1000)
Sqrt2Lo == RoundDiv(707107 * 12, 1000)

RECURSIVE Pow2(_)
Pow2(k) == IF k <= 0 THEN 1 ELSE 2 * Pow2(k - 1)

\* Math.exp(x): x = k ln2 + r with |r| <= ln2 / 2, then the series of e^r
Exp(x) ==
  LET k == RoundDiv(x, Ln2)
      r == x - k * Ln2
      t == Scale + Mul(r, Scale + Mul(RoundDiv(r, 2), Scale + Mul(RoundDiv(r, 3),
             Scale + Mul(RoundDiv(r, 4), Scale + RoundDiv(r, 5)))))
  IN IF k >= 0 THEN t * Pow2(k) ELSE RoundDiv(t, Pow2(-k))

\* the exponent k with x / 2^k in [sqrt(1/2), sqrt(2)), for x > 0
RECURSIVE BinExp(_)
BinExp(x) ==
  IF x >= Sqrt2Hi THEN 1 + BinExp(RoundDiv(x, 2))
  ELSE IF x < Sqrt2Lo THEN BinExp(2 * x) - 1
  ELSE 0

\* the mantissa x / 2^k of the same decomposition
RECURSIVE BinMant(_)
BinMant(x) ==
  IF x >= Sqrt2Hi THEN BinMant(RoundDiv(x, 2))
  ELSE IF x < Sqrt2Lo THEN BinMant(2 * x)
  ELSE x

\* Math.log(x) for x > 0: ln x = k ln2 + 2 atanh((m - 1) / (m + 1))
Ln(x) ==
  LET m == BinMant(x)
      z == Div(m - Scale, m + Scale)
      z2 == Mul(z, z)
      t == Scale + Mul(z2, RoundDiv(Scale, 3) + Mul(z2, RoundDiv(Scale, 5)
             + Mul(z2, RoundDiv(Scale, 7))))
  IN BinExp(x) * Ln2 + 2 * Mul(z, t)

\* Math.log10(x)
Log10(x) == Div(Ln(x), Ln10)

\* Math.pow(10, y)
Pow10(y) == Exp(Mul(y, Ln10))

-----------------------------------------------------------------------------
(* Exact rationals <<numerator, denominator>> of the Average engine; the     *)
(* denominator is positive and the fraction is in lowest terms.  NaN stands *)
(* for a value the code leaves NaN (0/0, or a variance it does not compute). *)

NaN == <<0, 0>>

RECURSIVE Gcd(_, _)
Gcd(a, b) == IF b = 0 THEN a ELSE Gcd(b, a % b)

RNorm(n, d) ==
  LET g == Gcd(Abs(n), Abs(d))
  IN IF d < 0 THEN <<(-n) \div g, (-d) \div g>> ELSE <<n \div g, d \div g>>

RInt(n) == <<n, 1>>

RAdd(a, b) ==
  LET g == Gcd(a[2], b[2])
  IN RNorm(a[1] * (b[2] \div g) + b[1] * (a[2] \div g), a[2] * (b[2] \div g))

RSub(a, b) == RAdd(a, <<-b[1], b[2]>>)

RMul(a, b) ==
  LET g1 == Gcd(Abs(a[1]), b[2])
      g2 == Gcd(Abs(b[1]), a[2])
  IN IF a[1] = 0 \/ b[1] = 0 THEN <<0, 1>>
     ELSE RNorm((a[1] \div g1) * (b[1] \div g2), (a[2] \div g2) * (b[2] \div g1))

\* a / b; 0/0 and x/0 are not numbers
RDiv(a, b) == IF b[1] = 0 THEN NaN ELSE RMul(a, RNorm(b[2], b[1]))

\* na / da <= nb / db for positive denominators: by the integer parts, then
\* by the fractional parts through their reciprocals, so that no product is
\* formed
RECURSIVE FracLeq(_, _, _, _)
FracLeq(na, da, nb, db) ==
  LET qa == na \div da
      qb == nb \div db
      ra == na % da
      rb == nb % db
  IN IF qa # qb THEN qa < qb
     ELSE IF ra = 0 THEN TRUE
     ELSE IF rb = 0 THEN FALSE
     ELSE FracLeq(db, rb, da, ra)

RLeq(a, b) == FracLeq(a[1], a[2], b[1], b[2])

RLess(a, b) == ~RLeq(b, a)

\* Math.max(a, b)
RMax(a, b) == IF RLeq(a, b) THEN b ELSE a

RECURSIVE RSum(_)
RSum(s) == IF s = <<>> THEN <<0, 1>> ELSE RAdd(Head(s), RSum(Tail(s)))

\* an array holding the values of the sequence s, each computed once
ArrayOf(s) == SubSeq(s, 1, Len(s))

RECURSIVE SumSeq(_)
SumSeq(s) == IF s = <<>> THEN 0 ELSE Head(s) + SumSeq(Tail(s))

\* the concatenation of the day lists, in order: Object.values(scores).flat()
RECURSIVE Flat(_)
Flat(ss) == IF ss = <<>> THEN <<>> ELSE Head(ss) \o Flat(Tail(ss))

\* allPlayers.indexOf(x) + 1: 0 when x is absent
RECURSIVE IndexFrom(_, _, _)
IndexFrom(s, x, i) ==
  IF i > Len(s) THEN 0 ELSE IF s[i] = x THEN i ELSE IndexFrom(s, x, i + 1)

IndexOf(s, x) == IndexFrom(s, x, 1)

\* [...new Set(s)]: the distinct elements in the order of first appearance
RECURSIVE Distinct(_, _)
Distinct(s, acc) ==
  IF s = <<>> THEN acc
  ELSE Distinct(Tail(s), IF IndexOf(acc, Head(s)) = 0 THEN Append(acc, Head(s)) ELSE acc)

-----------------------------------------------------------------------------
(* utils.js: points, calculateElo, calcEloIterated *)

\* a game result [player, score]
PlayerOf(e) == e[1]
ScoreOf(e) == e[2]

\* points without the 0.5
pointsNoHalf(a, b, maxScore) ==
  RoundDiv(RoundDiv(Fix(b - a), maxScore - 1), 2)

\* 0.5 + (b - a) / (maxScore - 1) / 2
points(a, b, maxScore) ==
  Half + RoundDiv(RoundDiv(Fix(b - a), maxScore - 1), 2)

\* 1 / (1 + Math.pow(10, eloDiff / 400))
Expected(eloDiff) == Div(Scale, Scale + Pow10(RoundDiv(eloDiff, 400)))

\* calculateElo leaving the opponent's rating as it was
calculateEloFirstOnly(elo0, elo1, sa, k) ==
  LET eloDiff == elo1 - elo0
      ea == Expected(eloDiff)
  IN <<elo0 + Mul(k, sa - ea), elo1>>

\* calculateElo with sb = sa
calculateEloSameScore(elo0, elo1, sa, k) ==
  LET eloDiff == elo1 - elo0
      ea == Expected(eloDiff)
      eb == Scale - ea
  IN <<elo0 + Mul(k, sa - ea), elo1 + Mul(k, sa - eb)>>

calculateElo(elo0, elo1, sa, k) ==
  LET eloDiff == elo1 - elo0
      ea == Expected(eloDiff)
      eb == Scale - ea
      sb == Scale - sa
  IN <<elo0 + Mul(k, sa - ea), elo1 + Mul(k, sb - eb)>>

\* PairUpdate rating the player against an opponent outside allPlayers as
\* against a rating of 1000
PairUpdateAgainstUnknown(currentElos, day, i, j, allPlayers, k, maxScore) ==
  LET playerIdx == IndexOf(allPlayers, PlayerOf(day[i]))
      opponentIdx == IndexOf(allPlayers, PlayerOf(day[j]))
      sa == points(ScoreOf(day[i]), ScoreOf(day[j]), maxScore)
      opponentElo == IF opponentIdx = 0 THEN Fix(1000) ELSE currentElos[opponentIdx]
      new == calculateElo(currentElos[playerIdx], opponentElo, sa, k)
  IN IF playerIdx = 0 THEN currentElos
     ELSE IF PlayerOf(day[i]) = PlayerOf(day[j]) THEN currentElos
     ELSE IF opponentIdx = 0 THEN [currentElos EXCEPT ![playerIdx] = new[1]]
     ELSE [[currentElos EXCEPT ![playerIdx] = new[1]] EXCEPT ![opponentIdx] = new[2]]

\* PairUpdate visiting each unordered pair once
PairUpdateOnce(currentElos, day, i, j, allPlayers, k, maxScore) ==
  LET playerIdx == IndexOf(allPlayers, PlayerOf(day[i]))
      opponentIdx == IndexOf(allPlayers, PlayerOf(day[j]))
      sa == points(ScoreOf(day[i]), ScoreOf(day[j]), maxScore)
      new == calculateElo(currentElos[playerIdx], currentElos[opponentIdx], sa, k)
  IN IF playerIdx = 0 \/ opponentIdx = 0 \/ i >= j
        \/ PlayerOf(day[i]) = PlayerOf(day[j])
     THEN currentElos
     ELSE [[currentElos EXCEPT ![playerIdx] = new[1]] EXCEPT ![opponentIdx] = new[2]]

\* the body of the two nested loops of calcEloIterated for the entries i and j
\* of a day: the ratings after it
PairUpdate(currentElos, day, i, j, allPlayers, k, maxScore) ==
  LET playerIdx == IndexOf(allPlayers, PlayerOf(day[i]))
      opponentIdx == IndexOf(allPlayers, PlayerOf(day[j]))
      sa == points(ScoreOf(day[i]), ScoreOf(day[j]), maxScore)
      new == calculateElo(currentElos[playerIdx], currentElos[opponentIdx], sa, k)
  IN IF playerIdx = 0 THEN currentElos
     ELSE IF PlayerOf(day[i]) = PlayerOf(day[j]) THEN currentElos
     ELSE IF opponentIdx = 0 THEN currentElos
     ELSE [[currentElos EXCEPT ![playerIdx] = new[1]] EXCEPT ![opponentIdx] = new[2]]

\* the ratings after the pairs t, t+1, ... of a day, the pairs counted row
\* by row: pair t is (entry t \div L, entry t % L)
RECURSIVE DayUpdate(_, _, _, _, _, _)
DayUpdate(currentElos, day, t, allPlayers, k, maxScore) ==
  IF t >= Len(day) * Len(day) THEN currentElos
  ELSE DayUpdate(
         PairUpdate(currentElos, day, (t \div Len(day)) + 1, (t % Len(day)) + 1,
                    allPlayers, k, maxScore),
         day, t + 1, allPlayers, k, maxScore)

\* eloOverTime after the days d, d+1, ...
RECURSIVE EloDays(_, _, _, _, _, _)
EloDays(eloOverTime, scores, d, allPlayers, k, maxScore) ==
  IF d > Len(scores) THEN eloOverTime
  ELSE EloDays(
         Append(eloOverTime,
                DayUpdate(eloOverTime[Len(eloOverTime)], scores[d], 0,
                          allPlayers, k, maxScore)),
         scores, d + 1, allPlayers, k, maxScore)

calcEloIterated(scores, allPlayers, k, maxScore) ==
  EloDays(<<ArrayOf([i \in 1..Len(allPlayers) |-> Fix(1000)])>>, scores, 1, allPlayers, k, maxScore)

-----------------------------------------------------------------------------
(* utils.js: geometricMean, computeNll, calcMapElos *)

\* arr.reduce((sum, val) => sum + Math.log(val), 0), then Math.exp(logSum / n)
geometricMean(arr) ==
  Exp(RoundDiv(SumSeq([i \in 1..Len(arr) |-> Ln(arr[i])]), Len(arr)))

\* UpdateP with the prior term 2 / (p[i] + 1) in the denominator
UpdatePPrior(w, p, i) ==
  LET n == Len(p)
      wins == [j \in 1..n |-> IF j = i THEN 0
                ELSE Div(Mul(w[i][j], p[j]), p[i] + p[j])]
      losses == [j \in 1..n |-> IF j = i THEN 0
                ELSE Div(w[j][i], p[i] + p[j])]
      numerator == Div(Scale, p[i] + Scale) + SumSeq(wins)
      denominator == Div(2 * Scale, p[i] + Scale) + SumSeq(losses)
  IN Div(numerator, denominator)

\* UpdateP without the prior term in the numerator
UpdatePNoPriorWin(w, p, i) ==
  LET n == Len(p)
      wins == [j \in 1..n |-> IF j = i THEN 0
                ELSE Div(Mul(w[i][j], p[j]), p[i] + p[j])]
      losses == [j \in 1..n |-> IF j = i THEN 0
                ELSE Div(w[j][i], p[i] + p[j])]
      numerator == SumSeq(wins)
      denominator == Div(Scale, p[i] + Scale) + SumSeq(losses)
  IN Div(numerator, denominator)

\* the new p[i] of one in-place update
UpdateP(w, p, i) ==
  LET n == Len(p)
      wins == [j \in 1..n |-> IF j = i THEN 0
                ELSE Div(Mul(w[i][j], p[j]), p[i] + p[j])]
      losses == [j \in 1..n |-> IF j = i THEN 0
                ELSE Div(w[j][i], p[i] + p[j])]
      numerator == Div(Scale, p[i] + Scale) + SumSeq(wins)
      denominator == Div(Scale, p[i] + Scale) + SumSeq(losses)
  IN Div(numerator, denominator)

\* the loop over i: each update reads the p already updated before it
RECURSIVE UpdateAll(_, _, _)
UpdateAll(w, p, i) ==
  IF i > Len(p) THEN p
  ELSE UpdateAll(w, [p EXCEPT ![i] = UpdateP(w, p, i)], i + 1)

\* the normalisation dividing by the arithmetic mean
NormalizeArithmetic(p) ==
  IF Len(p) = 0 THEN p
  ELSE LET mean == RoundDiv(SumSeq(p), Len(p))
       IN ArrayOf([i \in 1..Len(p) |-> Div(p[i], mean)])

\* p[i] /= geomMean for every i
Normalize(p) ==
  IF Len(p) = 0 THEN p
  ELSE LET geomMean == geometricMean(p)
       IN ArrayOf([i \in 1..Len(p) |-> Div(p[i], geomMean)])

\* pOld.reduce((sum, val, i) => sum + Math.abs(val - p[i]), 0)
Diff(pOld, p) == SumSeq([i \in 1..Len(p) |-> Abs(pOld[i] - p[i])])

\* tol = 1e-6, as numerator and denominator
TolNum == 1
TolDen == 1000000

\* diff < tol for a diff counted in units: diff / Scale < TolNum / TolDen
BelowTol(diff) == diff < (Scale * TolNum + TolDen - 1) \div TolDen

\* the bound of the for loop
MaxIterations == 200

EloOfP(pVal) == Fix(1000) + 400 * Log10(pVal)

ElosOf(p) == ArrayOf([i \in 1..Len(p) |-> EloOfP(p[i])])

\* the value a Number takes when it is not a number (0/0)
NotANumber == "NaN"

computeNll(w, eloRatings) ==
  LET n == Len(eloRatings)
      numGames == SumSeq([i \in 1..Len(w) |-> SumSeq(w[i])])
      term(i, j) ==
        LET pIj == Expected(eloRatings[j] - eloRatings[i])
        IN IF i = j THEN 0
           ELSE (IF w[i][j] > 0 THEN Mul(w[i][j], Log10(pIj)) ELSE 0)
              + (IF w[j][i] > 0 THEN Mul(w[j][i], Log10(Scale - pIj)) ELSE 0)
      nll == 0 - SumSeq([i \in 1..n |-> SumSeq([j \in 1..n |-> term(i, j)])])
  IN IF numGames = 0 THEN NotANumber ELSE Div(nll, numGames)

\* the state of the loop: the vector p, the counter, the NLL values pushed,
\* whether the loop has been left by break, and the p before normalisation
\* of the last iteration
LoopStart(w) ==
  [p |-> ArrayOf([i \in 1..Len(w) |-> Scale]), iteration |-> 0, nlls |-> <<>>,
   broke |-> FALSE, updated |-> ArrayOf([i \in 1..Len(w) |-> Scale])]

\* one iteration of the for loop of calcMapElos
LoopBody(w, st) ==
  LET pOld == st.p
      updated == UpdateAll(w, st.p, 1)
      p == Normalize(updated)
      diff == Diff(pOld, p)
  IN IF BelowTol(diff)
     THEN [st EXCEPT !.p = p, !.updated = updated, !.broke = TRUE]
     ELSE [p |-> p, iteration |-> st.iteration + 1,
           nlls |-> Append(st.nlls, computeNll(w, ElosOf(p))),
           broke |-> FALSE, updated |-> updated]

\* the loop without its bound
LoopRunsUncapped(st) == ~st.broke

\* whether the loop runs its body once more
LoopRuns(st) == ~st.broke /\ st.iteration < MaxIterations

\* the loop state after at most `count` further iterations
RECURSIVE LoopFor(_, _, _)
LoopFor(w, st, count) ==
  IF ~LoopRuns(st) \/ count = 0 THEN st
  ELSE IF count = 1 THEN LoopBody(w, st)
  ELSE LoopFor(w, LoopFor(w, st, count \div 2), count - count \div 2)

calcMapElos(w) ==
  LET st == LoopFor(w, LoopStart(w), MaxIterations)
  IN [p |-> st.p, elos |-> ElosOf(st.p), nlls |-> st.nlls]

-----------------------------------------------------------------------------
(* utils.js: filterScores and calculateLeaderboard.  A scores mapping is the *)
(* sequence of its day lists in the order of Object.values(scores); the     *)
(* position of a day stands for its key.                                    *)

\* a filter that keeps every entry
KeepsAll(e) == TRUE

\* dayResults.filter(([userId, score]) => score !== 7)
NotSeven(e) == ScoreOf(e) # 7

RECURSIVE DropEmptyDays(_)
DropEmptyDays(days) ==
  IF days = <<>> THEN <<>>
  ELSE IF Head(days) = <<>> THEN DropEmptyDays(Tail(days))
  ELSE <<Head(days)>> \o DropEmptyDays(Tail(days))

filterScores(scores, xIsSeven) ==
  IF xIsSeven THEN scores
  ELSE DropEmptyDays(ArrayOf([d \in 1..Len(scores) |-> SelectSeq(scores[d], NotSeven)]))

\* [...new Set(Object.values(scores).flat().map(([player, score]) => player))]
AllPlayers(scores) ==
  LET flat == Flat(scores)
  IN Distinct(ArrayOf([i \in 1..Len(flat) |-> PlayerOf(flat[i])]), <<>>)

\* Object.values(scores).flat().filter(([p, s]) => p === player).length
NumGames(scores, player) ==
  LET flat == Flat(scores)
  IN Cardinality({i \in 1..Len(flat) : PlayerOf(flat[i]) = player})

\* the two maxima exchanged
MaxScoreOfSwapped(xIsSeven) == IF xIsSeven THEN 6 ELSE 7

\* xIsSeven ? 7 : 6
MaxScoreOf(xIsSeven) == IF xIsSeven THEN 7 ELSE 6

\* DayWins with the two scores handed to points() exchanged
DayWinsSwapped(dayGames, allPlayers, idx1, idx2, maxScore) ==
  LET n == Len(dayGames)
      add(t) ==
        LET e1 == dayGames[(t \div n) + 1]
            e2 == dayGames[(t % n) + 1]
        IN IF PlayerOf(e1) # PlayerOf(e2)
              /\ PlayerOf(e1) = allPlayers[idx1] /\ PlayerOf(e2) = allPlayers[idx2]
           THEN points(ScoreOf(e2), ScoreOf(e1), maxScore) ELSE 0
  IN SumSeq([t \in 1..(n * n) |-> add(t - 1)])

\* what one day adds to winMatrix[idx1][idx2]
DayWins(dayGames, allPlayers, idx1, idx2, maxScore) ==
  LET n == Len(dayGames)
      add(t) ==
        LET e1 == dayGames[(t \div n) + 1]
            e2 == dayGames[(t % n) + 1]
        IN IF PlayerOf(e1) # PlayerOf(e2)
              /\ PlayerOf(e1) = allPlayers[idx1] /\ PlayerOf(e2) = allPlayers[idx2]
           THEN points(ScoreOf(e1), ScoreOf(e2), maxScore) ELSE 0
  IN SumSeq([t \in 1..(n * n) |-> add(t - 1)])

WinMatrix(scores, allPlayers, maxScore) ==
  ArrayOf([idx1 \in 1..Len(allPlayers) |->
    ArrayOf([idx2 \in 1..Len(allPlayers) |->
      SumSeq([d \in 1..Len(scores) |->
        DayWins(scores[d], allPlayers, idx1, idx2, maxScore)])])])

\* every call of points() made for the win matrix or the iterated update,
\* as <<a, b, value>>
PointsOfDay(dayGames, maxScore) ==
  {<<ScoreOf(dayGames[i]), ScoreOf(dayGames[j]),
     points(ScoreOf(dayGames[i]), ScoreOf(dayGames[j]), maxScore)>> :
     <<i, j>> \in {q \in (1..Len(dayGames)) \X (1..Len(dayGames)) :
                    PlayerOf(dayGames[q[1]]) # PlayerOf(dayGames[q[2]])}}

PointsComputed(scores, maxScore) ==
  UNION {PointsOfDay(scores[d], maxScore) : d \in 1..Len(scores)}

\* the Elo comparator with its operands exchanged
CompareEloAscending(a, b) == a.rating - b.rating

\* the comparator of the final sort: negative when a goes before b
CompareElo(a, b) == b.rating - a.rating

CompareAverage(a, b) ==
  IF RLess(a.finalScore, b.finalScore) THEN -1
  ELSE IF RLess(b.finalScore, a.finalScore) THEN 1 ELSE 0

Compare(a, b, statsMethod) ==
  IF statsMethod = "Elo" THEN CompareElo(a, b) ELSE CompareAverage(a, b)

\* Array.prototype.sort is stable: x goes before the first element it must precede
RECURSIVE InsertSorted(_, _, _)
InsertSorted(x, sorted, statsMethod) ==
  IF sorted = <<>> THEN <<x>>
  ELSE IF Compare(x, Head(sorted), statsMethod) < 0 THEN <<x>> \o sorted
  ELSE <<Head(sorted)>> \o InsertSorted(x, Tail(sorted), statsMethod)

RECURSIVE SortFrom(_, _, _, _)
SortFrom(s, i, sorted, statsMethod) ==
  IF i > Len(s) THEN sorted
  ELSE SortFrom(s, i + 1, InsertSorted(s[i], sorted, statsMethod), statsMethod)

Sort(s, statsMethod) == SortFrom(s, 1, <<>>, statsMethod)

\* the filter left out
FilterCutoffNone(entries, gameCutoff) == entries

\* the filter with > for >=
RECURSIVE FilterCutoffStrict(_, _)
FilterCutoffStrict(entries, gameCutoff) ==
  IF entries = <<>> THEN <<>>
  ELSE IF Head(entries).numGames > gameCutoff
       THEN <<Head(entries)>> \o FilterCutoffStrict(Tail(entries), gameCutoff)
       ELSE FilterCutoffStrict(Tail(entries), gameCutoff)

\* .filter(p => p.numGames >= gameCutoff)
RECURSIVE FilterCutoff(_, _)
FilterCutoff(entries, gameCutoff) ==
  IF entries = <<>> THEN <<>>
  ELSE IF Head(entries).numGames >= gameCutoff
       THEN <<Head(entries)>> \o FilterCutoff(Tail(entries), gameCutoff)
       ELSE FilterCutoff(Tail(entries), gameCutoff)

\* allPlayers.map(...).filter(...).sort(...) of the two Elo branches; ratings
\* holds one rating for each of allPlayers
EloLeaderboard(scores, allPlayers, ratings, gameCutoff) ==
  Sort(FilterCutoff(ArrayOf([idx \in 1..Len(ratings) |->
                               [player |-> allPlayers[idx],
                                numGames |-> NumGames(scores, allPlayers[idx]),
                                rating |-> ratings[idx]]]),
                    gameCutoff),
       "Elo")

-----------------------------------------------------------------------------
(* utils.js: the Average branch of calculateLeaderboard, in exact rationals. *)
(* adjustedStd, adjustedSe, rawAvg, dayAdjustment and weightedMean are       *)
(* computed by the code and never read again; they are left out.            *)

\* the indices of the days whose list names the player, ascending:
\* Object.keys(playerDayScores[player])
DaysOf(scores, player) ==
  LET has(d) == \E i \in 1..Len(scores[d]) : PlayerOf(scores[d][i]) = player
      RECURSIVE from(_)
      from(d) == IF d > Len(scores) THEN <<>>
                 ELSE IF has(d) THEN <<d>> \o from(d + 1) ELSE from(d + 1)
  IN from(1)

\* playerDayScores[player][dayIndex] = score: a later entry overwrites
DayScore(dayGames, player) ==
  LET idxs == {i \in 1..Len(dayGames) : PlayerOf(dayGames[i]) = player}
      last == CHOOSE i \in idxs : \A j \in idxs : j <= i
  IN ScoreOf(dayGames[last])

\* allScoresByDay[dayIndex]
DayScores(dayGames) == [i \in 1..Len(dayGames) |-> ScoreOf(dayGames[i])]

OverallAverage(scores) ==
  LET allGameScores == Flat([d \in 1..Len(scores) |-> DayScores(scores[d])])
  IN RDiv(RInt(SumSeq(allGameScores)), RInt(Len(allGameScores)))

\* the day effect computed whatever the flag says
DayEffectAlways(scores, d, dayAdjustment) ==
  RSub(RDiv(RInt(SumSeq(DayScores(scores[d]))), RInt(Len(scores[d]))),
       OverallAverage(scores))

DayEffect(scores, d, dayAdjustment) ==
  IF dayAdjustment
  THEN RSub(RDiv(RInt(SumSeq(DayScores(scores[d]))), RInt(Len(scores[d]))),
            OverallAverage(scores))
  ELSE RInt(0)

AdjustedScores(scores, player, dayAdjustment) ==
  LET days == DaysOf(scores, player)
  IN ArrayOf([t \in 1..Len(days) |->
        RSub(RInt(DayScore(scores[days[t]], player)),
             DayEffect(scores, days[t], dayAdjustment))])

RSquare(a) == RMul(a, a)

\* Bessel-corrected variance when nGames > 1, NaN otherwise
AdjustedVar(adjustedScores, adjustedAvg) ==
  LET nGames == Len(adjustedScores)
  IN IF nGames > 1
     THEN RDiv(RSum([t \in 1..nGames |-> RSquare(RSub(adjustedScores[t], adjustedAvg))]),
               RInt(nGames - 1))
     ELSE NaN

PlayerStat(scores, player, dayAdjustment) ==
  LET adjustedScores == AdjustedScores(scores, player, dayAdjustment)
      nGames == Len(adjustedScores)
      adjustedAvg == RDiv(RSum(adjustedScores), RInt(nGames))
  IN [player |-> player,
      numGames |-> nGames,
      adjustedAvg |-> adjustedAvg,
      adjustedVar |-> AdjustedVar(adjustedScores, adjustedAvg),
      finalScore |-> NaN]

HasGames(stat) == stat.numGames # 0

PlayerStats(scores, dayAdjustment) ==
  LET allPlayers == AllPlayers(scores)
  IN SelectSeq(ArrayOf([i \in 1..Len(allPlayers) |->
                          PlayerStat(scores, allPlayers[i], dayAdjustment)]),
               HasGames)

Reliable(stat) == stat.numGames >= 2

SingleGame(stat) == stat.numGames = 1

MinTauSquared == <<1, 100>>

\* Math.max(0.01, weightedVarMeans - avgSamplingVar)
TauSquared(reliableStats, adjustedPopMean) ==
  LET n == Len(reliableStats)
      totalWeight == SumSeq([i \in 1..n |-> reliableStats[i].numGames])
      weightedVarMeans ==
        RDiv(RSum([i \in 1..n |->
               RMul(RInt(reliableStats[i].numGames),
                    RSquare(RSub(reliableStats[i].adjustedAvg, adjustedPopMean)))]),
             RInt(totalWeight))
      avgSamplingVar ==
        RDiv(RSum([i \in 1..n |->
               RMul(RInt(reliableStats[i].numGames),
                    RDiv(reliableStats[i].adjustedVar, RInt(reliableStats[i].numGames)))]),
             RInt(totalWeight))
  IN RMax(MinTauSquared, RSub(weightedVarMeans, avgSamplingVar))

\* the shrinkage factor with tauSquared counted twice in its numerator
ShrinkageFactorDoubled(stat, tauSquared) ==
  RDiv(RMul(RInt(2), tauSquared),
       RAdd(tauSquared, RDiv(stat.adjustedVar, RInt(stat.numGames))))

ShrinkageFactor(stat, tauSquared) ==
  RDiv(tauSquared, RAdd(tauSquared, RDiv(stat.adjustedVar, RInt(stat.numGames))))

\* stat.shrinkageFactor * stat.adjustedAvg + (1 - stat.shrinkageFactor) * adjustedPopMean
Shrink(stat, tauSquared, adjustedPopMean) ==
  LET shrinkageFactor == ShrinkageFactor(stat, tauSquared)
  IN RAdd(RMul(shrinkageFactor, stat.adjustedAvg),
          RMul(RSub(RInt(1), shrinkageFactor), adjustedPopMean))

\* the single-game player keeping its own average
SingleGameScoreOwn(stat, adjustedPopMean) == stat.adjustedAvg

\* stat.finalScore = adjustedPopMean for a single-game player
SingleGameScore(stat, adjustedPopMean) == adjustedPopMean

\* the adjustment applied whatever the flag says
AppliesBayesAlways(bayesAdjustment, playerStats, reliableStats) ==
  Len(playerStats) > 0 /\ Len(reliableStats) > 0

\* bayesAdjustment && playerStats.length > 0, then reliableStats.length > 0
AppliesBayes(bayesAdjustment, playerStats, reliableStats) ==
  bayesAdjustment /\ Len(playerStats) > 0 /\ Len(reliableStats) > 0

FinalStats(scores, dayAdjustment, bayesAdjustment) ==
  LET playerStats == PlayerStats(scores, dayAdjustment)
      reliableStats == SelectSeq(playerStats, Reliable)
      singleGameStats == SelectSeq(playerStats, SingleGame)
      adjustedPopMean == OverallAverage(scores)
      tauSquared == TauSquared(reliableStats, adjustedPopMean)
      unshrunk == ArrayOf([i \in 1..Len(playerStats) |->
                     [playerStats[i] EXCEPT !.finalScore = playerStats[i].adjustedAvg]])
  IN IF AppliesBayes(bayesAdjustment, playerStats, reliableStats)
     THEN [i \in 1..Len(reliableStats) |->
             [reliableStats[i] EXCEPT
                !.finalScore = Shrink(reliableStats[i], tauSquared, adjustedPopMean)]]
          \o [i \in 1..Len(singleGameStats) |->
                [singleGameStats[i] EXCEPT
                   !.finalScore = SingleGameScore(singleGameStats[i], adjustedPopMean)]]
     ELSE unshrunk

AverageLeaderboard(finalStats, gameCutoff) ==
  LET kept == Sort(FilterCutoff(finalStats, gameCutoff), "Average")
  IN ArrayOf([i \in 1..Len(kept) |->
        [player |-> kept[i].player,
         numGames |-> kept[i].numGames,
         rating |-> kept[i].finalScore]])

\* the first snapshot taken for the last
FinalElosFirst(eloHistory) == eloHistory[1]

\* const finalElos = eloHistory[eloHistory.length - 1]
FinalElos(eloHistory) == eloHistory[Len(eloHistory)]

\* a dispatch that reads bayesAdjustment in the Elo branches too: without
\* the adjustment it ranks by the ratings of the other Elo method
calculateLeaderboardEntangled(scores, options) ==
  LET allPlayers == AllPlayers(scores)
      maxScore == MaxScoreOf(options.xIsSeven)
      useMap == (options.eloMethod = "MAP") = options.bayesAdjustment
  IN IF options.statsMethod = "Elo"
     THEN IF useMap
          THEN EloLeaderboard(scores, allPlayers,
                              calcMapElos(WinMatrix(scores, allPlayers, maxScore)).elos,
                              options.gameCutoff)
          ELSE EloLeaderboard(scores, allPlayers,
                              FinalElos(calcEloIterated(scores, allPlayers,
                                                        options.eloK, maxScore)),
                              options.gameCutoff)
     ELSE AverageLeaderboard(FinalStats(scores, options.dayAdjustment,
                                        options.bayesAdjustment),
                             options.gameCutoff)

calculateLeaderboard(scores, options) ==
  LET allPlayers == AllPlayers(scores)
      maxScore == MaxScoreOf(options.xIsSeven)
  IN IF options.statsMethod = "Elo"
     THEN IF options.eloMethod = "MAP"
          THEN EloLeaderboard(scores, allPlayers,
                              calcMapElos(WinMatrix(scores, allPlayers, maxScore)).elos,
                              options.gameCutoff)
          ELSE LET eloHistory == calcEloIterated(scores, allPlayers, options.eloK, maxScore)
               IN EloLeaderboard(scores, allPlayers, FinalElos(eloHistory),
                                 options.gameCutoff)
     ELSE AverageLeaderboard(FinalStats(scores, options.dayAdjustment,
                                        options.bayesAdjustment),
                             options.gameCutoff)

-----------------------------------------------------------------------------
(* The state of the program.                                                *)

VARIABLES
  pc,           \* where the leaderboard command is
  rawScores,    \* the scores mapping collected from the channel and the database
  scores,       \* the mapping handed to calculateLeaderboard
  options,      \* the options of the call
  outcome,      \* how calculateLeaderboard ended
  leaderboard,  \* what it returned
  pointsUsed,   \* the calls of points() it made, <<a, b, value>>
  finalStats,   \* the Average branch's finalStats before the cutoff filter
  fn,           \* one application of points and calculateElo
  it,           \* calcEloIterated, pair by pair
  mp,           \* calcMapElos, sweep by sweep
  calls,        \* the calls of calculateLeaderboard made so far
  fetch,        \* fetchChannelMessages, one request at a time
  save          \* saveWordleResults, one query at a time

vars == <<pc, rawScores, scores, options, outcome, leaderboard, pointsUsed,
          finalStats, fn, it, mp, calls, fetch, save>>

MaxEntries == 3
MaxCutoff == 2

Players == <<"Alice", "Bob", "Carol">>

\* the scores parseWordleResults accepts (score < 1 || score > 7 is skipped)
InRange(score) == score >= 1 /\ score <= 7

ParsedScores == {1, 3, 6, 7}

\* scores a direct caller may pass; 0 is outside [1,7]
CallerScores == {0, 2, 5}

\* an engine that is not running
Idle == [pc |-> "idle", op |-> "none"]

NoOptions == [xIsSeven |-> FALSE, gameCutoff |-> 3, statsMethod |-> "Elo",
              eloMethod |-> "Iterated", eloK |-> Fix(2),
              dayAdjustment |-> TRUE, bayesAdjustment |-> TRUE]

\* the option records the command can build, unused options at their defaults
OptionSets(xIsSeven) ==
  [xIsSeven : {xIsSeven}, gameCutoff : 1..MaxCutoff, statsMethod : {"Elo"},
   eloMethod : {"Iterated", "MAP"}, eloK : {Fix(2)},
   dayAdjustment : {TRUE}, bayesAdjustment : {TRUE}]
  \cup
  [xIsSeven : {xIsSeven}, gameCutoff : 1..MaxCutoff, statsMethod : {"Average"},
   eloMethod : {"Iterated"}, eloK : {Fix(2)},
   dayAdjustment : BOOLEAN, bayesAdjustment : BOOLEAN]

NumEntries(s) == Len(Flat(s))

\* players are named in the order they first appear
MayAppear(player) ==
  LET seen == AllPlayers(rawScores)
  IN \/ \E i \in 1..Len(seen) : seen[i] = player
     \/ Len(seen) < Len(Players) /\ player = Players[Len(seen) + 1]

InitPipeline ==
  /\ pc = "collect"
  /\ rawScores = <<>>
  /\ scores = <<>>
  /\ options = NoOptions
  /\ outcome = "none"
  /\ leaderboard = <<>>
  /\ pointsUsed = {}
  /\ finalStats = <<>>
  /\ calls = <<>>
  /\ fetch = Idle /\ save = Idle

Init ==
  /\ InitPipeline
  /\ fn = Idle /\ it = Idle /\ mp = Idle

\* scores[wordleNumber] = dayResults, for a wordle number above those seen
NewDay(player, score) ==
  /\ pc = "collect"
  /\ NumEntries(rawScores) < MaxEntries
  /\ MayAppear(player)
  /\ rawScores' = Append(rawScores, <<<<player, score>>>>)
  /\ UNCHANGED <<pc, scores, options, outcome, leaderboard, pointsUsed,
                 finalStats, fn, it, mp, calls, fetch, save>>

\* dayResults.push([userId, score]) for the day being read
SameDay(player, score) ==
  /\ pc = "collect"
  /\ rawScores # <<>>
  /\ NumEntries(rawScores) < MaxEntries
  /\ MayAppear(player)
  /\ rawScores' = [rawScores EXCEPT ![Len(rawScores)] = Append(@, <<player, score>>)]
  /\ UNCHANGED <<pc, scores, options, outcome, leaderboard, pointsUsed,
                 finalStats, fn, it, mp, calls, fetch, save>>

\* const scores = filterScores(channelScores, xIsSeven)
FilterScores(xIsSeven) ==
  /\ pc = "collect"
  /\ rawScores # <<>>
  /\ scores' = filterScores(rawScores, xIsSeven)
  /\ options' = [options EXCEPT !.xIsSeven = xIsSeven]
  /\ pc' = "filtered"
  /\ UNCHANGED <<rawScores, outcome, leaderboard, pointsUsed, finalStats, fn, it, mp,
                 calls, fetch, save>>

\* what a call leaves behind: calculateLeaderboard has no throw, every path returns
Returned(s, opts) ==
  /\ outcome' = "returned"
  /\ leaderboard' = calculateLeaderboard(s, opts)
  /\ pointsUsed' = IF opts.statsMethod = "Elo"
                   THEN PointsComputed(s, MaxScoreOf(opts.xIsSeven)) ELSE {}
  /\ finalStats' = IF opts.statsMethod = "Average"
                   THEN FinalStats(s, opts.dayAdjustment, opts.bayesAdjustment)
                   ELSE <<>>

\* const leaderboard = calculateLeaderboard(scores, leaderboardOptions)
CalculateLeaderboard(opts) ==
  /\ pc = "filtered"
  /\ opts.xIsSeven = options.xIsSeven
  /\ options' = opts
  /\ Returned(scores, opts)
  /\ pc' = "done"
  /\ UNCHANGED <<rawScores, scores, fn, it, mp, calls, fetch, save>>

\* calculateLeaderboard called on a mapping as it is, without the command's filter
DirectCall(opts) ==
  /\ pc = "collect"
  /\ scores' = rawScores
  /\ options' = opts
  /\ Returned(rawScores, opts)
  /\ pc' = "done"
  /\ UNCHANGED <<rawScores, fn, it, mp, calls, fetch, save>>

Next ==
  \/ \E player \in {Players[i] : i \in 1..Len(Players)}, score \in ParsedScores :
       NewDay(player, score) \/ SameDay(player, score)
  \/ \E xIsSeven \in BOOLEAN : FilterScores(xIsSeven)
  \/ \E opts \in OptionSets(TRUE) \cup OptionSets(FALSE) : CalculateLeaderboard(opts)

Spec == Init /\ [][Next]_vars

NextCall ==
  \/ \E player \in {Players[i] : i \in 1..Len(Players)}, score \in CallerScores :
       NewDay(player, score) \/ SameDay(player, score)
  \/ \E opts \in OptionSets(TRUE) \cup OptionSets(FALSE) : DirectCall(opts)

SpecCall == Init /\ [][NextCall]_vars

-----------------------------------------------------------------------------
(* points and calculateElo applied once to arguments drawn from grids *)

MaxScores == {6, 7}

\* ratings at most 400 apart, some of them not whole numbers
EloGrid == {Fix(800), Fix(1000) - RoundDiv(4 * Scale, 10), Fix(1000),
            Fix(1000) + RoundDiv(4 * Scale, 10), Fix(1200)}

\* actual scores in [0,1]: the tenths and the twelfths that points() produces
SaGrid == {points(a, b, maxScore) : a \in 1..7, b \in 1..7, maxScore \in MaxScores}
            \cap 0..Scale

KGrid == {Half, Fix(2), Fix(10)}

InitFn ==
  /\ InitPipeline
  /\ fn = Idle /\ it = Idle /\ mp = Idle

ApplyPoints(a, b, maxScore) ==
  /\ fn.op = "none"
  /\ fn' = [op |-> "points", a |-> a, b |-> b, maxScore |-> maxScore,
            ab |-> points(a, b, maxScore), ba |-> points(b, a, maxScore)]
  /\ UNCHANGED <<pc, rawScores, scores, options, outcome, leaderboard,
                 pointsUsed, finalStats, it, mp, calls, fetch, save>>

ApplyCalculateElo(elo0, elo1, sa, k) ==
  /\ fn.op = "none"
  /\ fn' = [op |-> "calculateElo", elo0 |-> elo0, elo1 |-> elo1, sa |-> sa,
            k |-> k, new |-> calculateElo(elo0, elo1, sa, k)]
  /\ UNCHANGED <<pc, rawScores, scores, options, outcome, leaderboard,
                 pointsUsed, finalStats, it, mp, calls, fetch, save>>

NextFn ==
  \/ \E maxScore \in MaxScores : \E a \in 1..maxScore, b \in 1..maxScore :
       ApplyPoints(a, b, maxScore)
  \/ \E elo0 \in EloGrid, elo1 \in EloGrid, sa \in SaGrid, k \in KGrid :
       ApplyCalculateElo(elo0, elo1, sa, k)

SpecFn == InitFn /\ [][NextFn]_vars

-----------------------------------------------------------------------------
(* calcEloIterated, one pass of the inner loop body at a time, and the      *)
(* finalElos the Iterated branch of calculateLeaderboard reads from it      *)

EloDayLists ==
  {<< <<"Alice", 3>>, <<"Bob", 5>> >>,
   << <<"Bob", 3>>, <<"Alice", 5>> >>,
   << <<"Alice", 3>>, <<"Bob", 5>>, <<"Carol", 5>> >>,
   << <<"Carol", 3>> >>,
   << <<"Alice", 3>>, <<"Alice", 5>> >>}

EloInputs == {<<d>> : d \in EloDayLists}
               \cup {<<d, e>> : d \in EloDayLists, e \in EloDayLists}

EloUniverses == {<<"Alice", "Bob">>, <<"Alice", "Bob", "Carol">>}

EloKs == {Fix(2), Fix(10)}

\* after eloOverTime.push([...currentElos]) of the initialisation
InitElo ==
  /\ InitPipeline
  /\ fn = Idle /\ mp = Idle
  /\ \E s \in EloInputs, allPlayers \in EloUniverses, maxScore \in MaxScores,
        k \in EloKs :
       it = [pc |-> "days", scores |-> s, allPlayers |-> allPlayers,
             k |-> k, maxScore |-> maxScore, day |-> 0, pair |-> 0,
             currentElos |-> ArrayOf([i \in 1..Len(allPlayers) |-> Fix(1000)]),
             eloOverTime |-> <<ArrayOf([i \in 1..Len(allPlayers) |-> Fix(1000)])>>,
             finalElos |-> <<>>]

\* for (const day of scores) { currentElos = [...currentElos]
EloBeginDay ==
  /\ it.pc = "days"
  /\ it.day < Len(it.scores)
  /\ it' = [it EXCEPT !.pc = "pairs", !.day = @ + 1, !.pair = 0]
  /\ UNCHANGED <<pc, rawScores, scores, options, outcome, leaderboard,
                 pointsUsed, finalStats, fn, mp, calls, fetch, save>>

\* one pass of the body of the two nested loops over the day
EloPair ==
  /\ it.pc = "pairs"
  /\ LET day == it.scores[it.day]
     IN /\ it.pair < Len(day) * Len(day)
        /\ it' = [it EXCEPT
                    !.currentElos =
                       PairUpdate(@, day, (it.pair \div Len(day)) + 1,
                                  (it.pair % Len(day)) + 1,
                                  it.allPlayers, it.k, it.maxScore),
                    !.pair = @ + 1]
  /\ UNCHANGED <<pc, rawScores, scores, options, outcome, leaderboard,
                 pointsUsed, finalStats, fn, mp, calls, fetch, save>>

\* eloOverTime.push([...currentElos]) at the end of the day
EloEndDay ==
  /\ it.pc = "pairs"
  /\ it.pair = Len(it.scores[it.day]) * Len(it.scores[it.day])
  /\ it' = [it EXCEPT !.pc = "days",
                      !.eloOverTime = Append(@, it.currentElos)]
  /\ UNCHANGED <<pc, rawScores, scores, options, outcome, leaderboard,
                 pointsUsed, finalStats, fn, mp, calls, fetch, save>>

\* return eloOverTime; const finalElos = eloHistory[eloHistory.length - 1]
EloReturn ==
  /\ it.pc = "days"
  /\ it.day = Len(it.scores)
  /\ it' = [it EXCEPT !.pc = "returned", !.finalElos = FinalElos(it.eloOverTime)]
  /\ UNCHANGED <<pc, rawScores, scores, options, outcome, leaderboard,
                 pointsUsed, finalStats, fn, mp, calls, fetch, save>>

NextElo == EloBeginDay \/ EloPair \/ EloEndDay \/ EloReturn

SpecElo == InitElo /\ [][NextElo]_vars

-----------------------------------------------------------------------------
(* calcMapElos, one iteration of its loop at a time *)

MapScores == {1, 3, 6}

\* Alice and Bob meet on the first day; Carol plays the second day alone or
\* with one of them
MapInputs ==
  {<< << <<"Alice", a>>, <<"Bob", b>> >>, << <<"Carol", c>> >> \o other >> :
     a \in MapScores, b \in MapScores, c \in MapScores,
     other \in {<<>>, << <<"Alice", 3>> >>, << <<"Bob", 1>> >>}}

InitMap ==
  /\ InitPipeline
  /\ fn = Idle /\ it = Idle
  /\ \E s \in MapInputs :
       LET w == WinMatrix(s, AllPlayers(s), 6)
       IN mp = [pc |-> "loop", w |-> w, st |-> LoopStart(w), elos |-> <<>>]

\* one iteration of the for loop, to its end or to its break
MapIterate ==
  /\ mp.pc = "loop"
  /\ LoopRuns(mp.st)
  /\ mp' = [mp EXCEPT !.st = LoopBody(mp.w, mp.st)]
  /\ UNCHANGED <<pc, rawScores, scores, options, outcome, leaderboard,
                 pointsUsed, finalStats, fn, it, calls, fetch, save>>

\* const elos = p.map(...); return { p, elos, nlls }
MapReturn ==
  /\ mp.pc = "loop"
  /\ ~LoopRuns(mp.st)
  /\ mp' = [mp EXCEPT !.pc = "returned", !.elos = ElosOf(mp.st.p)]
  /\ UNCHANGED <<pc, rawScores, scores, options, outcome, leaderboard,
                 pointsUsed, finalStats, fn, it, calls, fetch, save>>

NextMap == MapIterate \/ MapReturn

SpecMap == InitMap /\ [][NextMap]_vars

\* calcMapElos is synchronous code: once called, it runs until it returns.
\* This is weak fairness of NextMap, with "a step of NextMap is possible"
\* written as the state predicate it equals, mp.pc = "loop": while the loop
\* runs, a sweep either counts one more iteration or sets broke, and when it
\* does not run, the return changes mp.pc.
SpecMapFair == SpecMap /\ ([]<>(mp.pc # "loop") \/ []<><<NextMap>>_vars)

-----------------------------------------------------------------------------
(* calcMapElos, one statement of its loop at a time: mp holds the locals    *)
(* p, pOld, i, iteration and nlls, and whether the loop was left by break   *)

InitMapSteps ==
  /\ InitPipeline
  /\ fn = Idle /\ it = Idle
  /\ \E s \in MapInputs :
       LET w == WinMatrix(s, AllPlayers(s), 6)
       IN mp = [pc |-> "for", w |-> w, p |-> LoopStart(w).p, pOld |-> <<>>,
                i |-> 0, iteration |-> 0, nlls |-> <<>>, broke |-> FALSE,
                elos |-> <<>>]

\* iteration < 200; const pOld = [...p]
MapBeginSweep ==
  /\ mp.pc = "for"
  /\ mp.iteration < MaxIterations
  /\ mp' = [mp EXCEPT !.pc = "update", !.pOld = mp.p, !.i = 1]
  /\ UNCHANGED <<pc, rawScores, scores, options, outcome, leaderboard,
                 pointsUsed, finalStats, fn, it, calls, fetch, save>>

\* p[i] = numerator / denominator
MapUpdateOne ==
  /\ mp.pc = "update"
  /\ mp.i <= Len(mp.p)
  /\ mp' = [mp EXCEPT !.p = [mp.p EXCEPT ![mp.i] = UpdateP(mp.w, mp.p, mp.i)],
                      !.i = @ + 1]
  /\ UNCHANGED <<pc, rawScores, scores, options, outcome, leaderboard,
                 pointsUsed, finalStats, fn, it, calls, fetch, save>>

\* const geomMean = geometricMean(p); p[i] /= geomMean
MapNormalize ==
  /\ mp.pc = "update"
  /\ mp.i > Len(mp.p)
  /\ mp' = [mp EXCEPT !.pc = "check", !.p = Normalize(mp.p)]
  /\ UNCHANGED <<pc, rawScores, scores, options, outcome, leaderboard,
                 pointsUsed, finalStats, fn, it, calls, fetch, save>>

\* MapCheck with nlls.push(...) ahead of the convergence check
MapCheckPushFirst ==
  /\ mp.pc = "check"
  /\ mp' = IF BelowTol(Diff(mp.pOld, mp.p))
           THEN [mp EXCEPT !.pc = "left", !.broke = TRUE,
                           !.nlls = Append(@, computeNll(mp.w, ElosOf(mp.p)))]
           ELSE [mp EXCEPT !.pc = "for", !.iteration = @ + 1,
                           !.nlls = Append(@, computeNll(mp.w, ElosOf(mp.p)))]
  /\ UNCHANGED <<pc, rawScores, scores, options, outcome, leaderboard,
                 pointsUsed, finalStats, fn, it, calls, fetch, save>>

\* if (diff < tol) break; otherwise nlls.push(...) and iteration++
MapCheck ==
  /\ mp.pc = "check"
  /\ mp' = IF BelowTol(Diff(mp.pOld, mp.p))
           THEN [mp EXCEPT !.pc = "left", !.broke = TRUE]
           ELSE [mp EXCEPT !.pc = "for", !.iteration = @ + 1,
                           !.nlls = Append(@, computeNll(mp.w, ElosOf(mp.p)))]
  /\ UNCHANGED <<pc, rawScores, scores, options, outcome, leaderboard,
                 pointsUsed, finalStats, fn, it, calls, fetch, save>>

\* const elos = p.map(...); return { p, elos, nlls }
MapLeave ==
  /\ \/ mp.pc = "left"
     \/ mp.pc = "for" /\ mp.iteration >= MaxIterations
  /\ mp' = [mp EXCEPT !.pc = "returned", !.elos = ElosOf(mp.p)]
  /\ UNCHANGED <<pc, rawScores, scores, options, outcome, leaderboard,
                 pointsUsed, finalStats, fn, it, calls, fetch, save>>

NextMapSteps ==
  MapBeginSweep \/ MapUpdateOne \/ MapNormalize \/ MapCheck \/ MapLeave

SpecMapSteps == InitMapSteps /\ [][NextMapSteps]_vars

-----------------------------------------------------------------------------
(* The three branches of calculateLeaderboard applied to one scores mapping: *)
(* scores is the mapping, it holds the eloHistory of the Iterated branch,   *)
(* and the leaderboard it returns, mp the winMatrix of the MAP branch,      *)
(* finalStats and leaderboard the statistics of the Average branch and the  *)
(* leaderboard it returns.                                                  *)

EngineDayLists ==
  {<< <<"Alice", 3>>, <<"Bob", 5>> >>,
   << <<"Bob", 1>>, <<"Alice", 6>> >>,
   << <<"Alice", 3>>, <<"Bob", 5>>, <<"Carol", 7>> >>,
   << <<"Carol", 3>> >>,
   << <<"Bob", 7>> >>,
   << <<"Alice", 3>>, <<"Alice", 5>> >>,
   << <<"Alice", 1>>, <<"Bob", 6>>, <<"Alice", 3>> >>,
   << <<"Alice", 2>>, <<"Bob", 4>>, <<"Carol", 6>> >>}

EngineInputs ==
  {<<d>> : d \in EngineDayLists}
    \cup {<<d, e>> : d \in EngineDayLists, e \in EngineDayLists}
    \cup {<<d, e, f>> : d \in EngineDayLists, e \in EngineDayLists,
                        f \in EngineDayLists}

InitEngines ==
  /\ pc = "engines"
  /\ \E raw \in EngineInputs, xIsSeven \in BOOLEAN :
       /\ rawScores = raw
       /\ scores = filterScores(raw, xIsSeven)
       /\ scores # <<>>
       /\ options = [NoOptions EXCEPT !.xIsSeven = xIsSeven, !.gameCutoff = 1]
  /\ outcome = "none"
  /\ leaderboard = <<>>
  /\ pointsUsed = {}
  /\ finalStats = <<>>
  /\ calls = <<>>
  /\ fetch = Idle /\ save = Idle
  /\ fn = Idle /\ it = Idle /\ mp = Idle

\* the Iterated branch: eloHistory, and the leaderboard made of its last snapshot
RunIterated ==
  /\ pc = "engines"
  /\ it = Idle
  /\ it' = [pc |-> "returned",
            eloOverTime |-> calcEloIterated(scores, AllPlayers(scores), options.eloK,
                                            MaxScoreOf(options.xIsSeven)),
            leaderboard |->
              calculateLeaderboard(scores, [options EXCEPT !.statsMethod = "Elo"])]
  /\ UNCHANGED <<pc, rawScores, scores, options, outcome, leaderboard,
                 pointsUsed, finalStats, fn, mp, calls, fetch, save>>

\* the MAP branch up to the call of calcMapElos: winMatrix
BuildWinMatrix ==
  /\ pc = "engines"
  /\ mp = Idle
  /\ mp' = [pc |-> "built",
            w |-> WinMatrix(scores, AllPlayers(scores), MaxScoreOf(options.xIsSeven))]
  /\ UNCHANGED <<pc, rawScores, scores, options, outcome, leaderboard,
                 pointsUsed, finalStats, fn, it, calls, fetch, save>>

\* the Average branch: finalStats before the cutoff filter, and the leaderboard
RunAverage(dayAdjustment, bayesAdjustment) ==
  /\ pc = "engines"
  /\ outcome = "none"
  /\ outcome' = "returned"
  /\ options' = [options EXCEPT !.statsMethod = "Average",
                                !.dayAdjustment = dayAdjustment,
                                !.bayesAdjustment = bayesAdjustment]
  /\ finalStats' = FinalStats(scores, dayAdjustment, bayesAdjustment)
  /\ leaderboard' = calculateLeaderboard(scores, options')
  /\ UNCHANGED <<pc, rawScores, scores, pointsUsed, fn, it, mp,
                 calls, fetch, save>>

NextEngines ==
  \/ RunIterated
  \/ BuildWinMatrix
  \/ \E dayAdjustment \in BOOLEAN, bayesAdjustment \in BOOLEAN :
       RunAverage(dayAdjustment, bayesAdjustment)

SpecEngines == InitEngines /\ [][NextEngines]_vars

-----------------------------------------------------------------------------
(* calculateLeaderboard called more than once by one caller: scores and     *)
(* options are the caller's two argument objects, leaderboard the value the *)
(* last call returned, calls the arguments and the value of every call.     *)

MaxCalls == 2

CallDayLists ==
  {<< <<"Alice", 3>>, <<"Bob", 5>> >>,
   << <<"Bob", 1>>, <<"Alice", 6>>, <<"Carol", 3>> >>}

CallInputs ==
  {<<d>> : d \in CallDayLists} \cup {<<d, e>> : d \in CallDayLists, e \in CallDayLists}

\* every combination of the method options
CallOptions ==
  [xIsSeven : {FALSE}, gameCutoff : {1}, statsMethod : {"Elo", "Average"},
   eloMethod : {"Iterated", "MAP"}, eloK : {Fix(2), Fix(10)},
   dayAdjustment : BOOLEAN, bayesAdjustment : BOOLEAN]

InitCalls ==
  /\ pc = "calls"
  /\ rawScores = <<>>
  /\ scores \in CallInputs
  /\ options \in CallOptions
  /\ outcome = "none"
  /\ leaderboard = <<>>
  /\ pointsUsed = {}
  /\ finalStats = <<>>
  /\ fn = Idle /\ it = Idle /\ mp = Idle
  /\ calls = <<>>
  /\ fetch = Idle /\ save = Idle

\* a call that appends its rows to those a module-level array already holds
CallAccumulating ==
  /\ pc = "calls"
  /\ Len(calls) < MaxCalls
  /\ outcome' = "returned"
  /\ leaderboard' = leaderboard \o calculateLeaderboard(scores, options)
  /\ calls' = Append(calls, [scores |-> scores, options |-> options,
                             leaderboard |-> leaderboard'])
  /\ UNCHANGED <<pc, rawScores, scores, options, pointsUsed, finalStats,
                 fn, it, mp, fetch, save>>

\* calculateLeaderboard(scores, options): everything it writes is local to
\* the call, and the value it returns is built anew
Call ==
  /\ pc = "calls"
  /\ Len(calls) < MaxCalls
  /\ outcome' = "returned"
  /\ leaderboard' = calculateLeaderboard(scores, options)
  /\ calls' = Append(calls, [scores |-> scores, options |-> options,
                             leaderboard |-> leaderboard'])
  /\ UNCHANGED <<pc, rawScores, scores, options, pointsUsed, finalStats,
                 fn, it, mp, fetch, save>>

\* the caller builds the arguments of its next call
Prepare(s, opts) ==
  /\ pc = "calls"
  /\ outcome = "returned"
  /\ Len(calls) < MaxCalls
  /\ scores' = s
  /\ options' = opts
  /\ outcome' = "none"
  /\ UNCHANGED <<pc, rawScores, leaderboard, pointsUsed, finalStats,
                 fn, it, mp, calls, fetch, save>>

NextCalls ==
  \/ Call
  \/ \E s \in CallInputs, opts \in CallOptions : Prepare(s, opts)

SpecCalls == InitCalls /\ [][NextCalls]_vars

-----------------------------------------------------------------------------
(* utils.js: fetchChannelMessages, one request and one response at a time.  *)
(* fetch holds limit, the length of messages, retries, the requests sent    *)
(* for the page being fetched, the pages received and the responses of the  *)
(* page in order; a response is a status 429, another status that is not    *)
(* ok, or an ok status with a batch of 0 to PageSize messages.  The cursor  *)
(* before and the waiting times change no decision and are left out.       *)

\* ?limit=100 of the request, and batch.length < 100
PageSize == 100

\* const maxRetries = 3
maxRetries == 3

FetchLimits == {0, 50, 100, 150, 200}

BatchLengths == {0, 30, PageSize}

\* const messages = []; let before = null
InitFetch ==
  /\ pc = "fetch"
  /\ rawScores = <<>>
  /\ scores = <<>>
  /\ options = NoOptions
  /\ outcome = "none"
  /\ leaderboard = <<>>
  /\ pointsUsed = {}
  /\ finalStats = <<>>
  /\ fn = Idle /\ it = Idle /\ mp = Idle
  /\ calls = <<>>
  /\ save = Idle
  /\ \E limit \in FetchLimits :
       fetch = [pc |-> "while", limit |-> limit, messagesLength |-> 0,
                retries |-> 0, requests |-> 0, pages |-> 0,
                statuses |-> <<>>, error |-> "none"]

FetchFrame ==
  UNCHANGED <<pc, rawScores, scores, options, outcome, leaderboard, pointsUsed,
              finalStats, fn, it, mp, calls, save>>

\* while (messages.length < limit) { let retries = 0
FetchWhile ==
  /\ fetch.pc = "while"
  /\ fetch.messagesLength < fetch.limit
  /\ fetch' = [fetch EXCEPT !.pc = "retry", !.retries = 0, !.requests = 0,
                            !.statuses = <<>>]
  /\ FetchFrame

\* the loop condition fails: return messages
FetchReturn ==
  /\ fetch.pc = "while"
  /\ ~(fetch.messagesLength < fetch.limit)
  /\ fetch' = [fetch EXCEPT !.pc = "returned"]
  /\ FetchFrame

\* the retry loop entered whatever retries is
SendRequestUnbounded ==
  /\ fetch.pc = "retry"
  /\ fetch.requests < 2 * maxRetries
  /\ fetch' = [fetch EXCEPT !.pc = "await", !.requests = @ + 1]
  /\ FetchFrame

\* while (retries <= maxRetries) { response = await fetch(url, ...)
SendRequest ==
  /\ fetch.pc = "retry"
  /\ fetch.retries <= maxRetries
  /\ fetch' = [fetch EXCEPT !.pc = "await", !.requests = @ + 1]
  /\ FetchFrame

\* if (response.status === 429) { ...; retries++; continue; }
Response429 ==
  /\ fetch.pc = "await"
  /\ fetch' = [fetch EXCEPT !.pc = "retry", !.retries = @ + 1,
                            !.statuses = Append(@, "429")]
  /\ FetchFrame

\* if (!response.ok) throw new Error(`Failed to fetch messages: ...`)
ResponseNotOk ==
  /\ fetch.pc = "await"
  /\ fetch' = [fetch EXCEPT !.pc = "thrown", !.statuses = Append(@, "not ok"),
                            !.error = "Failed to fetch messages"]
  /\ FetchFrame

\* the retry loop is left with retries > maxRetries:
\* throw new Error('Max retries exceeded for fetching messages')
RetriesExceeded ==
  /\ fetch.pc = "retry"
  /\ fetch.retries > maxRetries
  /\ fetch' = [fetch EXCEPT !.pc = "thrown",
                            !.error = "Max retries exceeded for fetching messages"]
  /\ FetchFrame

\* an ok response: break out of the retry loop; const batch = await
\* response.json(); if (batch.length === 0) break; messages.push(...batch);
\* if (batch.length < 100) break
ResponseOk(batchLength) ==
  /\ fetch.pc = "await"
  /\ fetch' = [fetch EXCEPT
                 !.statuses = Append(@, "ok"),
                 !.pages = @ + 1,
                 !.messagesLength = @ + batchLength,
                 !.pc = IF batchLength = 0 \/ batchLength < PageSize
                        THEN "returned" ELSE "while"]
  /\ FetchFrame

NextFetch ==
  \/ FetchWhile
  \/ FetchReturn
  \/ SendRequest
  \/ Response429
  \/ ResponseNotOk
  \/ RetriesExceeded
  \/ \E batchLength \in BatchLengths : ResponseOk(batchLength)

SpecFetch == InitFetch /\ [][NextFetch]_vars

\* every request is answered and every step of the function is taken
SpecFetchFair == SpecFetch /\ WF_vars(NextFetch)

-----------------------------------------------------------------------------
(* db.js: saveWordleResults, one query at a time.  save holds the scores     *)
(* argument, the rows of wordle_results as the transaction sees them (their  *)
(* keys), the queries issued with their outcome, the counters, how often    *)
(* the client was released, the error being propagated and what the call   *)
(* returned.  pool.connect() and every query either succeed or reject.      *)

\* crypto.createHash('sha256').update(userId.toString()).digest('hex')
hashUserId(userId) == <<"sha256", userId>>

SaveInputs ==
  {<<>>,
   << << <<"Alice", 3>> >> >>,
   << << <<"Alice", 3>>, <<"Bob", 5>> >> >>,
   << << <<"Alice", 3>> >>, << <<"Alice", 5>>, <<"Bob", 2>> >> >>,
   << << <<"Alice", 3>>, <<"Alice", 5>> >> >>}

\* the rows the table may hold before the call, by their key
SavedKeys == {<<hashUserId("Alice"), 1>>, <<hashUserId("Bob"), 1>>}

\* the key of the t-th entry of the mapping: the hash of its user and the
\* number of its day
KeyOf(s, t) ==
  LET dayOf(d) == Len(Flat(SubSeq(s, 1, d)))
      day == CHOOSE d \in 1..Len(s) : dayOf(d - 1) < t /\ t <= dayOf(d)
  IN <<hashUserId(PlayerOf(Flat(s)[t])), day>>

InitSave ==
  /\ pc = "save"
  /\ rawScores = <<>>
  /\ scores = <<>>
  /\ options = NoOptions
  /\ outcome = "none"
  /\ leaderboard = <<>>
  /\ pointsUsed = {}
  /\ finalStats = <<>>
  /\ fn = Idle /\ it = Idle /\ mp = Idle
  /\ calls = <<>>
  /\ fetch = Idle
  /\ \E s \in SaveInputs, rows \in SUBSET SavedKeys :
       save = [pc |-> "connect", scores |-> s, rows |-> rows, before |-> rows,
               queries |-> <<>>, insertCount |-> 0, newCount |-> 0,
               updatedCount |-> 0, released |-> 0, error |-> "none",
               result |-> [total |-> 0, new |-> 0, updated |-> 0]]

SaveFrame ==
  UNCHANGED <<pc, rawScores, scores, options, outcome, leaderboard, pointsUsed,
              finalStats, fn, it, mp, calls, fetch>>

Issued(name, ok) == Append(save.queries, [name |-> name, ok |-> ok])

\* const client = await pool.connect(): resolved, or rejected, which ends the
\* call before its try
Connect(ok) ==
  /\ save.pc = "connect"
  /\ save' = IF ok THEN [save EXCEPT !.pc = "begin"]
             ELSE [save EXCEPT !.pc = "thrown", !.error = "connect"]
  /\ SaveFrame

\* await client.query('BEGIN')
Begin(ok) ==
  /\ save.pc = "begin"
  /\ save' = IF ok THEN [save EXCEPT !.pc = "loop", !.queries = Issued("BEGIN", ok)]
             ELSE [save EXCEPT !.pc = "catch", !.queries = Issued("BEGIN", ok),
                               !.error = "BEGIN"]
  /\ SaveFrame

\* one pass of the inner loop: the upsert, insertCount++, and newCount++ or
\* updatedCount++ by RETURNING (xmax = 0) AS inserted
Upsert(ok) ==
  /\ save.pc = "loop"
  /\ save.insertCount < Len(Flat(save.scores))
  /\ LET key == KeyOf(save.scores, save.insertCount + 1)
         inserted == key \notin save.rows
     IN save' = IF ok
                THEN [save EXCEPT !.queries = Issued("UPSERT", ok),
                                  !.rows = @ \cup {key},
                                  !.insertCount = @ + 1,
                                  !.newCount = IF inserted THEN @ + 1 ELSE @,
                                  !.updatedCount = IF inserted THEN @ ELSE @ + 1]
                ELSE [save EXCEPT !.pc = "catch", !.queries = Issued("UPSERT", ok),
                                  !.error = "UPSERT"]
  /\ SaveFrame

\* await client.query('COMMIT'); return { total, new, updated }
Commit(ok) ==
  /\ save.pc = "loop"
  /\ save.insertCount = Len(Flat(save.scores))
  /\ save' = IF ok
             THEN [save EXCEPT !.pc = "finally", !.queries = Issued("COMMIT", ok),
                               !.result = [total |-> save.insertCount,
                                           new |-> save.newCount,
                                           updated |-> save.updatedCount]]
             ELSE [save EXCEPT !.pc = "catch", !.queries = Issued("COMMIT", ok),
                               !.error = "COMMIT"]
  /\ SaveFrame

\* catch (error) { await client.query('ROLLBACK'); ...; throw error }: a
\* ROLLBACK that rejects throws its own error out of the catch block
Rollback(ok) ==
  /\ save.pc = "catch"
  /\ save' = [save EXCEPT !.pc = "finally", !.queries = Issued("ROLLBACK", ok),
                          !.rows = save.before,
                          !.error = IF ok THEN @ ELSE "ROLLBACK"]
  /\ SaveFrame

\* a finally block that releases the client only after a return
ReleaseOnReturn ==
  /\ save.pc = "finally"
  /\ save' = [save EXCEPT !.released = IF save.error = "none" THEN @ + 1 ELSE @,
                          !.pc = IF save.error = "none" THEN "returned" ELSE "thrown"]
  /\ SaveFrame

\* finally { client.release() }, then the return or the throw takes effect
Release ==
  /\ save.pc = "finally"
  /\ save' = [save EXCEPT !.released = @ + 1,
                          !.pc = IF save.error = "none" THEN "returned" ELSE "thrown"]
  /\ SaveFrame

NextSave ==
  \/ \E ok \in BOOLEAN : Connect(ok)
  \/ \E ok \in BOOLEAN : Begin(ok)
  \/ \E ok \in BOOLEAN : Upsert(ok)
  \/ \E ok \in BOOLEAN : Commit(ok)
  \/ \E ok \in BOOLEAN : Rollback(ok)
  \/ Release

SpecSave == InitSave /\ [][NextSave]_vars

-----------------------------------------------------------------------------
(* Properties of the leaderboard command *)

PlayerSet(s) == {PlayerOf(Flat(s)[i]) : i \in 1..Len(Flat(s))}

OnBoard(player) == \E i \in 1..Len(leaderboard) : leaderboard[i].player = player

\* the games count the branch taken uses for its cutoff filter
CountedGames(player) ==
  IF options.statsMethod = "Elo" THEN NumGames(scores, player)
  ELSE Len(DaysOf(scores, player))

\* the number of distinct days whose list names the player
DistinctDays(player) ==
  Cardinality({d \in 1..Len(scores) :
                 \E i \in 1..Len(scores[d]) : PlayerOf(scores[d][i]) = player})

HasInvalidScore(s) == \E i \in 1..Len(Flat(s)) : ~InRange(ScoreOf(Flat(s)[i]))

\* C3: whenever a raw score passed to calculateLeaderboard lies outside [1,7],
\* the call reports InvalidScoreError and returns no leaderboard.
C3_InvalidScoreRejected ==
  (pc = "done" /\ HasInvalidScore(scores))
    => (outcome = "InvalidScoreError" /\ leaderboard = <<>>)

\* C4: the players of the returned leaderboard are players of the input, each
\* appears at most once, each has numGames >= gameCutoff, and every input
\* player who is missing has fewer than gameCutoff games.
C4_GameCutoffFilter ==
  pc = "done" =>
    /\ \A i \in 1..Len(leaderboard) :
         /\ leaderboard[i].player \in PlayerSet(scores)
         /\ leaderboard[i].numGames >= options.gameCutoff
         /\ \A j \in 1..Len(leaderboard) :
              leaderboard[i].player = leaderboard[j].player => i = j
    /\ \A player \in PlayerSet(scores) :
         ~OnBoard(player) => CountedGames(player) < options.gameCutoff

\* a call that kept one player and dropped another
C4_Witness ==
  /\ pc = "done"
  /\ Len(leaderboard) >= 1
  /\ \E player \in PlayerSet(scores) : ~OnBoard(player)
  /\ \E i \in 1..Len(leaderboard) : leaderboard[i].numGames = options.gameCutoff

\* C5: for each of the three methods, the numGames reported for a player is
\* the number of distinct day keys whose result list contains that player.
C5_GamesPlayedIsDistinctDays ==
  pc = "done" =>
    \A i \in 1..Len(leaderboard) :
      leaderboard[i].numGames = DistinctDays(leaderboard[i].player)

RBetween(x, a, b) ==
  \/ RLeq(a, x) /\ RLeq(x, b)
  \/ RLeq(b, x) /\ RLeq(x, a)

C7_RankingOrder ==
  pc = "done" =>
    \A i \in 1..Len(leaderboard) : \A j \in 1..Len(leaderboard) :
      i < j =>
        IF options.statsMethod = "Elo"
        THEN leaderboard[i].rating >= leaderboard[j].rating
        ELSE RLeq(leaderboard[i].rating, leaderboard[j].rating)

\* a leaderboard whose first place is not the first player of the input and
\* whose ratings differ
C7_Witness ==
  /\ pc = "done"
  /\ Len(leaderboard) >= 2
  /\ leaderboard[1].rating # leaderboard[2].rating
  /\ leaderboard[1].player # AllPlayers(scores)[1]

\* C9: every point value computed inside calculateLeaderboard lies in [0,1],
\* is 1 exactly for score 1 against score maxScore and 0 exactly for the
\* reverse, where maxScore is 7 if xIsSeven and 6 otherwise.
C9_PointRange ==
  (pc = "done" /\ options.statsMethod = "Elo") =>
    LET maxScore == IF options.xIsSeven THEN 7 ELSE 6
    IN \A t \in pointsUsed :
         /\ t[3] >= 0 /\ t[3] <= Scale
         /\ t[3] = Scale <=> (t[1] = 1 /\ t[2] = maxScore)
         /\ t[3] = 0 <=> (t[1] = maxScore /\ t[2] = 1)

\* both extremes were computed, under either setting of xIsSeven
C9_Witness ==
  /\ pc = "done"
  /\ options.statsMethod = "Elo"
  /\ \E t \in pointsUsed : t[3] = Scale
  /\ \E t \in pointsUsed : t[3] = 0

-----------------------------------------------------------------------------
(* Properties of points and calculateElo *)

\* C8: for maxScore in {6,7} and a, b in [1, maxScore],
\* points(a,b,maxScore) + points(b,a,maxScore) = 1, hence points(a,a,maxScore) = 0.5.
C8_PointsZeroSum ==
  fn.op = "points" =>
    /\ fn.ab + fn.ba = Scale
    /\ fn.a = fn.b => fn.ab = Half

\* two different scores compared on the seven-point scale
C8_Witness ==
  /\ fn.op = "points"
  /\ fn.maxScore = 7
  /\ fn.a # fn.b
  /\ fn.ab # Half

-----------------------------------------------------------------------------
(* Properties of calcEloIterated *)

\* the run of the end-to-end scenario: universe [Alice, Bob], K = 2,
\* maxScore = 6, one day in which Alice scores 3 and Bob scores 5
Scenario ==
  /\ it.pc # "idle"
  /\ it.allPlayers = <<"Alice", "Bob">>
  /\ it.k = Fix(2)
  /\ it.maxScore = 6
  /\ it.scores = << << <<"Alice", 3>>, <<"Bob", 5>> >> >>

\* whole + frac / 10^4 as a fixed-point number
Decimal(whole, frac) == Fix(whole) + RoundDiv(frac * Scale, 10000)

\* within 0.001
Near(x, y) == Abs(x - y) <= Scale \div 1000

\* C1 as stated: the scenario ends with the last snapshot holding
\* Alice = 1000.4 and Bob = 999.6.
C1_ScenarioAsStated ==
  (Scenario /\ it.pc = "returned") =>
    it.eloOverTime[Len(it.eloOverTime)]
      = <<Decimal(1000, 4000), Decimal(999, 6000)>>

\* C1 amended: in the scenario Alice = 1000.4 and Bob = 999.6 after the pair
\* (Alice, Bob); the pair (Bob, Alice) is then applied as well, and the last
\* snapshot holds Alice = 1000.7977 and Bob = 999.2023 to within 0.001.
C1_ScenarioBothPairs ==
  /\ (Scenario /\ it.pc = "pairs" /\ it.pair = 2) =>
       it.currentElos = <<Decimal(1000, 4000), Decimal(999, 6000)>>
  /\ (Scenario /\ it.pc = "returned") =>
       /\ Len(it.eloOverTime) = 2
       /\ Near(it.eloOverTime[2][1], Decimal(1000, 7977))
       /\ Near(it.eloOverTime[2][2], Decimal(999, 2023))

\* the scenario has returned
C1_Witness == Scenario /\ it.pc = "returned"

\* the stepped loop returns what calcEloIterated computes
EloStepsAgree ==
  it.pc = "returned" =>
    it.eloOverTime = calcEloIterated(it.scores, it.allPlayers, it.k, it.maxScore)

\* the number of days whose snapshot has been pushed
DaysDone == IF it.pc = "pairs" THEN it.day - 1 ELSE it.day

\* C11: calcEloIterated holds one snapshot for the start and one for each day
\* processed, d + 1 when it returns, each with one rating for each player of
\* the universe; snapshot 0 is all 1000, snapshot t is snapshot t - 1 updated
\* by day t of the input as given, no step changes a snapshot already
\* pushed, and the leaderboard's ratings are those of the last snapshot.
C11_EloHistory ==
  /\ [](it.pc # "idle" =>
         /\ Len(it.eloOverTime) = DaysDone + 1
         /\ it.pc = "returned" => Len(it.eloOverTime) = Len(it.scores) + 1
         /\ \A t \in 1..Len(it.eloOverTime) :
              /\ DOMAIN it.eloOverTime[t] = 1..Len(it.allPlayers)
              /\ t = 1 => \A i \in 1..Len(it.allPlayers) :
                            it.eloOverTime[t][i] = Fix(1000)
              /\ t > 1 => it.eloOverTime[t] =
                            DayUpdate(it.eloOverTime[t - 1], it.scores[t - 1], 0,
                                      it.allPlayers, it.k, it.maxScore)
         /\ it.pc = "returned" =>
              it.finalElos = it.eloOverTime[Len(it.scores) + 1])
  /\ [][\A t \in 1..Len(it.eloOverTime) :
          /\ t <= Len(it'.eloOverTime)
          /\ it'.eloOverTime[t] = it.eloOverTime[t]]_vars

\* a returned history of two days whose three snapshots all differ
C11_Witness ==
  /\ it.pc = "returned"
  /\ Len(it.scores) = 2
  /\ Len(it.eloOverTime) = 3
  /\ it.eloOverTime[1] # it.eloOverTime[2]
  /\ it.eloOverTime[2] # it.eloOverTime[3]
  /\ it.finalElos # it.eloOverTime[1]

-----------------------------------------------------------------------------
(* Properties of calcMapElos *)

\* row i and column i of w are all zero
Isolated(w, i) == \A j \in 1..Len(w) : w[i][j] = 0 /\ w[j][i] = 0

\* an iteration of the loop has run
Swept == mp.pc # "idle" /\ (mp.st.iteration >= 1 \/ mp.st.broke)

\* C2 as stated: a player whose row and column of W are zero has p_i = 1
\* after each iteration, after the renormalisation, and a returned elo of
\* exactly 1000.
C2_IsolatedKeepsOne ==
  Swept =>
    \A i \in 1..Len(mp.w) :
      Isolated(mp.w, i) =>
        /\ mp.st.p[i] = Scale
        /\ mp.pc = "returned" => mp.elos[i] = Fix(1000)

\* C2 amended: such a player has p_i = 1 after its own update in every
\* iteration; the renormalisation then divides it by the geometric mean of
\* the updated vector, and the returned elo is 1000 + 400 log10 of that
\* quotient.
C2_IsolatedOneBeforeNormalize ==
  Swept =>
    \A i \in 1..Len(mp.w) :
      Isolated(mp.w, i) =>
        /\ mp.st.updated[i] = Scale
        /\ mp.st.p[i] = Div(Scale, geometricMean(mp.st.updated))
        /\ mp.pc = "returned" => mp.elos[i] = EloOfP(mp.st.p[i])

\* an isolated player whom the renormalisation moved away from 1
C2_Witness ==
  /\ Swept
  /\ \E i \in 1..Len(mp.w) :
       /\ Isolated(mp.w, i)
       /\ \E j \in 1..Len(mp.w) : ~Isolated(mp.w, j)
       /\ mp.st.updated[i] = Scale
       /\ mp.st.p[i] # Scale

\* the stepped loop returns what calcMapElos computes
MapStepsAgree ==
  mp.pc = "returned" =>
    /\ mp.st.p = calcMapElos(mp.w).p
    /\ mp.elos = calcMapElos(mp.w).elos
    /\ mp.st.nlls = calcMapElos(mp.w).nlls

\* the sweeps performed so far: the iterations completed and the one left by break
Sweeps == mp.st.iteration + (IF mp.st.broke THEN 1 ELSE 0)

\* a step that performs one sweep
IsSweep == mp.pc = "loop" /\ mp'.pc = "loop" /\ mp'.st # mp.st

\* C12: calcMapElos performs at most 200 sweeps and then returns, converged
\* or not; a sweep is performed only while no earlier sweep met the test, and
\* the loop is left before the bound exactly by the sweep whose summed
\* absolute change of p, after the renormalisation, is below the tolerance.
C12_MapTermination ==
  /\ [](Sweeps <= MaxIterations)
  /\ []((mp.pc = "loop" /\ LoopRuns(mp.st)) => LoopBody(mp.w, mp.st) # mp.st)
  /\ [](mp.pc = "returned" => (mp.st.broke \/ mp.st.iteration = MaxIterations))
  /\ [][IsSweep =>
         /\ ~mp.st.broke
         /\ Sweeps < MaxIterations
         /\ Sweeps' = Sweeps + 1
         /\ mp'.st.broke <=> BelowTol(Diff(mp.st.p, mp'.st.p))]_vars
  /\ [][(mp.pc = "loop" /\ mp'.pc = "returned") =>
         (mp.st.broke \/ Sweeps = MaxIterations) /\ mp'.st = mp.st]_vars
  /\ <>(mp.pc = "returned")

\* a run that returned at the bound without the test ever being met
C12_Witness ==
  /\ mp.pc = "returned"
  /\ ~mp.st.broke
  /\ mp.st.iteration = MaxIterations

\* a run that the test ended after several sweeps
StoppedEarly ==
  /\ mp.pc = "returned"
  /\ mp.st.broke
  /\ Sweeps > 2 /\ Sweeps < MaxIterations

\* the product of the entries of p
RECURSIVE Product(_)
Product(p) == IF p = <<>> THEN Scale ELSE Mul(Head(p), Product(Tail(p)))

\* equal to 1 up to the rounding of the arithmetic: within 0.001
NearOne(x) == Abs(x - Scale) <= Scale \div 1000

\* C13: after the renormalisation of every sweep of calcMapElos the geometric
\* mean of p is 1 and so is the product of its entries, and the same holds of
\* the p returned.
C13_MapNormalized ==
  Swept =>
    /\ NearOne(geometricMean(mp.st.p))
    /\ NearOne(Product(mp.st.p))

\* a sweep whose renormalisation changed every entry of the updated vector
C13_Witness ==
  /\ Swept
  /\ ~NearOne(geometricMean(mp.st.updated))
  /\ \A i \in 1..Len(mp.st.p) : mp.st.p[i] # mp.st.updated[i]

\* every entry of w is non-negative
NonNegative(w) == \A i \in 1..Len(w) : \A j \in 1..Len(w[i]) : w[i][j] >= 0

\* C14: for an outcome matrix with non-negative entries every p_i is strictly
\* positive at every point of calcMapElos, after each in-place update and
\* after each renormalisation, so the denominators p_i + p_j and p_i + 1 are
\* not zero, and every returned elo is a number.
C14_MapPositive ==
  (mp.pc # "idle" /\ NonNegative(mp.w)) =>
    /\ \A i \in 1..Len(mp.w) :
         /\ mp.p[i] > 0
         /\ mp.p[i] + Scale # 0
         /\ \A j \in 1..Len(mp.w) : mp.p[i] + mp.p[j] # 0
    /\ mp.pc = "returned" =>
         /\ Len(mp.elos) = Len(mp.w)
         /\ \A i \in 1..Len(mp.w) : mp.elos[i] \in Int

\* in the middle of a sweep, just after the in-place update of a player who
\* met an opponent and won no points at all
C14_Witness ==
  /\ mp.pc = "update"
  /\ NonNegative(mp.w)
  /\ mp.iteration >= 1
  /\ \E i \in 1..Len(mp.w) :
       /\ mp.i = i + 1
       /\ ~Isolated(mp.w, i)
       /\ \A j \in 1..Len(mp.w) : mp.w[i][j] = 0
       /\ mp.p[i] < Scale

\* the statements of the loop return what calcMapElos computes
MapStatementsAgree ==
  mp.pc = "returned" =>
    /\ mp.p = calcMapElos(mp.w).p
    /\ mp.elos = calcMapElos(mp.w).elos
    /\ mp.nlls = calcMapElos(mp.w).nlls

\* the sweeps performed when calcMapElos returns: the iterations completed
\* and the one left by break
SweepsPerformed == mp.iteration + (IF mp.broke THEN 1 ELSE 0)

\* the loop is controlled by iteration and by diff alone
LoopControl ==
  /\ mp.pc = "for" =>
       (mp'.pc = "update" <=> mp.iteration < MaxIterations)
  /\ mp.pc = "check" =>
       /\ mp'.pc = "left" <=> BelowTol(Diff(mp.pOld, mp.p))
       /\ mp'.pc # "left" => mp'.pc = "for"
       /\ mp'.p = mp.p

\* C15 as stated: nlls holds one value for each sweep performed, the sweep on
\* which convergence is detected included, and the NLL values do not control
\* the loop.
C15_NllForEverySweep ==
  /\ [](mp.pc = "returned" => Len(mp.nlls) = SweepsPerformed)
  /\ [][LoopControl]_vars

\* C15 amended: nlls holds one value for each sweep that did not detect
\* convergence, so it is one shorter than the number of sweeps when the loop
\* was left by break and as long as it (200) otherwise; the NLL values do
\* not control the loop.
C15_NllForEveryCompletedSweep ==
  /\ [](mp.pc # "idle" => Len(mp.nlls) = mp.iteration)
  /\ [](mp.pc = "returned" =>
         Len(mp.nlls) = SweepsPerformed - (IF mp.broke THEN 1 ELSE 0))
  /\ [](mp.pc = "returned" /\ ~mp.broke => Len(mp.nlls) = MaxIterations)
  /\ [][LoopControl]_vars

\* a run left by break after several sweeps
C15_Witness ==
  /\ mp.pc = "returned"
  /\ mp.broke
  /\ SweepsPerformed >= 3
  /\ Len(mp.nlls) = SweepsPerformed - 1

-----------------------------------------------------------------------------
(* Properties of the win matrix and of the days of a mapping *)

\* the positions of the player's entries in a day list
EntriesOf(dayGames, player) ==
  {i \in 1..Len(dayGames) : PlayerOf(dayGames[i]) = player}

\* the days in which both players appear
SharedDays(s, a, b) ==
  {d \in 1..Len(s) : EntriesOf(s[d], a) # {} /\ EntriesOf(s[d], b) # {}}

\* no player appears twice in a day
OncePerDay(s) ==
  \A d \in 1..Len(s) : \A i \in 1..Len(s[d]) : \A j \in 1..Len(s[d]) :
    PlayerOf(s[d][i]) = PlayerOf(s[d][j]) => i = j

\* the sum of f over a finite set of integers
RECURSIVE SumOver(_, _)
SumOver(S, f) ==
  IF S = {} THEN 0
  ELSE LET x == CHOOSE y \in S : TRUE
       IN f[x] + SumOver(S \ {x}, f)

\* the points of the entries of a against the entries of b in one day
PointsBetween(dayGames, a, b, maxScore) ==
  SumOver(EntriesOf(dayGames, a),
          [i \in 1..Len(dayGames) |->
             SumOver(EntriesOf(dayGames, b),
                     [j \in 1..Len(dayGames) |->
                        points(ScoreOf(dayGames[i]), ScoreOf(dayGames[j]), maxScore)])])

-----------------------------------------------------------------------------
(* Properties of the Average branch *)

\* the number of days in which the player appears
DaysPlayed(s, player) ==
  Cardinality({d \in 1..Len(s) : EntriesOf(s[d], player) # {}})

\* the scores of all entries of the mapping, and those of one player
AllScoresOf(s) == [i \in 1..Len(Flat(s)) |-> ScoreOf(Flat(s)[i])]
ScoresOfPlayer(s, player) ==
  LET mine == SelectSeq(Flat(s), LAMBDA e : PlayerOf(e) = player)
  IN [i \in 1..Len(mine) |-> ScoreOf(mine[i])]

\* the arithmetic mean of a sequence of integers
MeanOf(xs) == RDiv(RInt(SumSeq(xs)), RInt(Len(xs)))

\* the Average branch has run
AverageRan == pc = "engines" /\ outcome = "returned"

StatOf(player) ==
  CHOOSE stat \in {finalStats[i] : i \in 1..Len(finalStats)} : stat.player = player

HasStat(player) == \E i \in 1..Len(finalStats) : finalStats[i].player = player

\* C17: in the Average method with bayesAdjustment enabled and at least one
\* player with two or more games, every player with exactly one game gets a
\* final score equal to the population mean, the raw grand average over all
\* games, whatever that player's own score.
C17_SingleGamePlayers ==
  (/\ AverageRan
   /\ options.bayesAdjustment
   /\ \E other \in PlayerSet(scores) : DaysPlayed(scores, other) >= 2) =>
    \A player \in PlayerSet(scores) :
      DaysPlayed(scores, player) = 1 =>
        /\ HasStat(player)
        /\ StatOf(player).numGames = 1
        /\ StatOf(player).finalScore = MeanOf(AllScoresOf(scores))
        /\ \A i \in 1..Len(leaderboard) :
             leaderboard[i].player = player =>
               leaderboard[i].rating = MeanOf(AllScoresOf(scores))

\* a single-game player whose own score is not the population mean, next to
\* a player with two games
C17_Witness ==
  /\ AverageRan
  /\ options.bayesAdjustment
  /\ \E other \in PlayerSet(scores) : DaysPlayed(scores, other) >= 2
  /\ \E player \in PlayerSet(scores) :
       /\ DaysPlayed(scores, player) = 1
       /\ HasStat(player)
       /\ StatOf(player).adjustedAvg # MeanOf(AllScoresOf(scores))
       /\ MeanOf(ScoresOfPlayer(scores, player)) # MeanOf(AllScoresOf(scores))
       /\ StatOf(player).finalScore = MeanOf(AllScoresOf(scores))

\* C18: in the Average method, if bayesAdjustment is disabled, or it is
\* enabled but no player has two or more games, every player's final score
\* equals that player's adjustedAvg.
C18_NoShrinkage ==
  (/\ AverageRan
   /\ \/ ~options.bayesAdjustment
      \/ \A other \in PlayerSet(scores) : DaysPlayed(scores, other) < 2) =>
    /\ \A player \in PlayerSet(scores) :
         /\ HasStat(player)
         /\ StatOf(player).finalScore = StatOf(player).adjustedAvg
         /\ \A i \in 1..Len(leaderboard) :
              leaderboard[i].player = player =>
                leaderboard[i].rating = StatOf(player).adjustedAvg
    /\ Len(leaderboard) = Len(finalStats)

\* the adjustment is disabled and a player with two games, whom it would
\* have moved, keeps the adjustedAvg, which is not the population mean
C18_Witness ==
  /\ AverageRan
  /\ ~options.bayesAdjustment
  /\ \E player \in PlayerSet(scores) :
       /\ DaysPlayed(scores, player) >= 2
       /\ HasStat(player)
       /\ StatOf(player).adjustedVar # <<0, 1>>
       /\ StatOf(player).finalScore = StatOf(player).adjustedAvg
       /\ StatOf(player).finalScore # MeanOf(AllScoresOf(scores))

\* the raw score of the player in a day: the score the day lists for the
\* player, the last one when the day lists the player more than once
RawScoreIn(dayGames, player) ==
  LET mine == EntriesOf(dayGames, player)
  IN ScoreOf(dayGames[CHOOSE i \in mine : \A j \in mine : j <= i])

\* the arithmetic mean of the player's raw scores, one for each day played
RawAverage(s, player) ==
  LET played == {d \in 1..Len(s) : EntriesOf(s[d], player) # {}}
  IN RDiv(RInt(SumOver(played, [d \in 1..Len(s) |->
                                  IF d \in played THEN RawScoreIn(s[d], player)
                                  ELSE 0])),
          RInt(Cardinality(played)))

\* the mean score of a day is not the grand average
OffAverageDay(s, d) ==
  RDiv(RInt(SumSeq([i \in 1..Len(s[d]) |-> ScoreOf(s[d][i])])), RInt(Len(s[d])))
    # MeanOf(AllScoresOf(s))

\* C19: in the Average method with dayAdjustment disabled every day effect is
\* 0 and every player's adjustedAvg equals the raw average, the arithmetic
\* mean of the player's raw scores (the mean of all the player's entries when
\* no day lists a player twice); with bayesAdjustment disabled as well the
\* reported rating of every player is that mean, and one day with the scores
\* 2, 4, 6 and gameCutoff 1 is ranked 2, 4, 6.
C19_NoDayAdjustment ==
  (AverageRan /\ ~options.dayAdjustment) =>
    /\ \A d \in 1..Len(scores) :
         DayEffect(scores, d, options.dayAdjustment) = RInt(0)
    /\ \A player \in PlayerSet(scores) :
         /\ HasStat(player)
         /\ StatOf(player).adjustedAvg = RawAverage(scores, player)
         /\ OncePerDay(scores) =>
              StatOf(player).adjustedAvg = MeanOf(ScoresOfPlayer(scores, player))
         /\ ~options.bayesAdjustment =>
              \E i \in 1..Len(leaderboard) :
                /\ leaderboard[i].player = player
                /\ leaderboard[i].rating = RawAverage(scores, player)
    /\ (/\ ~options.bayesAdjustment
        /\ scores = << << <<"Alice", 2>>, <<"Bob", 4>>, <<"Carol", 6>> >> >>) =>
         leaderboard = << [player |-> "Alice", numGames |-> 1, rating |-> RInt(2)],
                          [player |-> "Bob", numGames |-> 1, rating |-> RInt(4)],
                          [player |-> "Carol", numGames |-> 1, rating |-> RInt(6)] >>

\* both adjustments are disabled and a player of two days, one of them a day
\* whose mean is not the grand average, is reported with the raw average
C19_Witness ==
  /\ AverageRan
  /\ ~options.dayAdjustment
  /\ ~options.bayesAdjustment
  /\ \E player \in PlayerSet(scores) :
       /\ DaysPlayed(scores, player) = 2
       /\ \E d \in 1..Len(scores) :
            EntriesOf(scores[d], player) # {} /\ OffAverageDay(scores, d)
       /\ \E i \in 1..Len(leaderboard) :
            /\ leaderboard[i].player = player
            /\ leaderboard[i].rating = RawAverage(scores, player)
            /\ leaderboard[i].rating # MeanOf(AllScoresOf(scores))

-----------------------------------------------------------------------------
(* Properties of a day with a single participant *)

\* the day names one player only
SingleParticipant(dayGames) ==
  Cardinality({PlayerOf(dayGames[i]) : i \in 1..Len(dayGames)}) = 1

\* the mapping without its d-th day
WithoutDay(s, d) == SubSeq(s, 1, d - 1) \o SubSeq(s, d + 1, Len(s))

\* the games a list of entries (leaderboard rows, statistics) reports for a
\* player, 0 when it has no entry for the player
GamesReported(entries, player) ==
  IF \E i \in 1..Len(entries) : entries[i].player = player
  THEN (CHOOSE e \in {entries[i] : i \in 1..Len(entries)} : e.player = player).numGames
  ELSE 0

\* what the engines that have run show of day d: no rating moved, no entry of
\* the win matrix grew, and the day is one game of its player
NeutralButCounted(d) ==
  LET player == PlayerOf(scores[d][1])
      rest == WithoutDay(scores, d)
  IN /\ it.pc = "returned" =>
          /\ it.eloOverTime[d + 1] = it.eloOverTime[d]
          /\ GamesReported(it.leaderboard, player) =
               GamesReported(calculateLeaderboard(rest,
                               [options EXCEPT !.statsMethod = "Elo"]), player) + 1
     /\ mp.pc = "built" =>
          mp.w = WinMatrix(rest, AllPlayers(scores), MaxScoreOf(options.xIsSeven))
     /\ AverageRan =>
          /\ GamesReported(finalStats, player) =
               GamesReported(PlayerStats(rest, options.dayAdjustment), player) + 1
          /\ GamesReported(leaderboard, player) =
               GamesReported(calculateLeaderboard(rest, options), player) + 1

\* C20: a day with a single participant changes no rating in calcEloIterated
\* (its snapshot equals the previous one) and adds nothing to any entry of
\* the MAP win matrix, yet it counts as one game for that player in
\* games_played and in the per-player statistics of the Average method.
C20_DegenerateDay ==
  pc = "engines" =>
    \A d \in 1..Len(scores) : SingleParticipant(scores[d]) => NeutralButCounted(d)

\* the same of the days that hold one entry
OneEntryDayNeutralButCounted ==
  pc = "engines" =>
    \A d \in 1..Len(scores) : Len(scores[d]) = 1 => NeutralButCounted(d)

\* all three engines have run on a mapping whose second day holds one entry,
\* after a day that moved the ratings
OneEntryDayReached ==
  /\ pc = "engines" /\ it.pc = "returned" /\ mp.pc = "built" /\ AverageRan
  /\ Len(scores) >= 2
  /\ Len(scores[2]) = 1
  /\ it.eloOverTime[2] # it.eloOverTime[1]
  /\ it.eloOverTime[3] = it.eloOverTime[2]

-----------------------------------------------------------------------------
(* Properties of calculateLeaderboard as a function of its arguments *)

\* no player has as many games as the cutoff asks for
NoneQualifies ==
  \A player \in PlayerSet(scores) : CountedGames(player) < options.gameCutoff

\* C21: for every method, when no player has numGames >= gameCutoff, the
\* empty scores mapping included, calculateLeaderboard returns an empty
\* sequence and does not throw.
C21_EmptyResult ==
  (pc = "done" /\ NoneQualifies) => (outcome = "returned" /\ leaderboard = <<>>)

\* a call on a mapping that is not empty, none of whose players qualifies
C21_Witness ==
  /\ pc = "done" /\ NoneQualifies
  /\ scores # <<>>
  /\ options.gameCutoff = 2
  /\ outcome = "returned" /\ leaderboard = <<>>

\* a call on the empty mapping, for each of the three methods
EmptyMappingReached(statsMethod, eloMethod) ==
  /\ pc = "done" /\ scores = <<>>
  /\ options.statsMethod = statsMethod /\ options.eloMethod = eloMethod
  /\ outcome = "returned" /\ leaderboard = <<>>

EmptyIteratedReached == EmptyMappingReached("Elo", "Iterated")
EmptyMapReached == EmptyMappingReached("Elo", "MAP")
EmptyAverageReached == EmptyMappingReached("Average", "Iterated")

-----------------------------------------------------------------------------
(* Properties of filterScores *)

\* the entries of a day list that are not failures, in their order
RECURSIVE Solved(_)
Solved(dayResults) ==
  IF dayResults = <<>> THEN <<>>
  ELSE IF ScoreOf(Head(dayResults)) = 7 THEN Solved(Tail(dayResults))
  ELSE <<Head(dayResults)>> \o Solved(Tail(dayResults))

\* the days of a mapping that hold an entry which is not a failure
DaysKept(s) ==
  {d \in 1..Len(s) : \E i \in 1..Len(s[d]) : ScoreOf(s[d][i]) # 7}

\* the k-th smallest element of a set of integers
Nth(S, k) == CHOOSE x \in S : Cardinality({y \in S : y < x}) = k - 1

\* filterScores has returned: scores is its result for rawScores
Filtered == pc \in {"filtered", "done"}

\* C22: filterScores(scores, false) returns a mapping with no entry of score
\* 7 and no day with an empty list, which keeps every entry of every day that
\* is not a 7 in its original order, and leaves the input mapping as it was;
\* filterScores(scores, true) returns the scores unchanged.
C22_FilterScores ==
  /\ [](Filtered =>
         IF options.xIsSeven THEN scores = rawScores
         ELSE /\ \A d \in 1..Len(scores) :
                   /\ scores[d] # <<>>
                   /\ \A i \in 1..Len(scores[d]) : ScoreOf(scores[d][i]) # 7
              /\ Len(scores) = Cardinality(DaysKept(rawScores))
              /\ \A k \in 1..Len(scores) :
                   scores[k] = Solved(rawScores[Nth(DaysKept(rawScores), k)]))
  /\ [][pc = "collect" /\ pc' = "filtered" => rawScores' = rawScores]_vars

\* failures are filtered out of a mapping of two days: the first day held
\* nothing else and is gone, the second lost its failure and kept the rest
C22_Witness ==
  /\ Filtered /\ ~options.xIsSeven
  /\ Len(rawScores) = 2 /\ Len(scores) = 1
  /\ rawScores[1] = << <<"Alice", 7>> >>
  /\ Len(rawScores[2]) = 2
  /\ ScoreOf(rawScores[2][1]) = 7
  /\ scores[1] = << rawScores[2][2] >>

\* failures are kept: the mapping handed on is the one collected
FailuresKeptReached ==
  /\ Filtered /\ options.xIsSeven
  /\ \E d \in 1..Len(rawScores) : \E i \in 1..Len(rawScores[d]) :
       ScoreOf(rawScores[d][i]) = 7
  /\ scores = rawScores

-----------------------------------------------------------------------------
(* Properties of repeated calls of calculateLeaderboard *)

SameUsedOptions(o1, o2) ==
  /\ o1.xIsSeven = o2.xIsSeven
  /\ o1.gameCutoff = o2.gameCutoff
  /\ o1.statsMethod = o2.statsMethod
  /\ IF o1.statsMethod = "Elo"
     THEN o1.eloMethod = o2.eloMethod /\ o1.eloK = o2.eloK
     ELSE o1.dayAdjustment = o2.dayAdjustment
            /\ o1.bayesAdjustment = o2.bayesAdjustment

\* C24: with statsMethod = Elo the output of calculateLeaderboard does not
\* depend on dayAdjustment or bayesAdjustment, with statsMethod = Average it
\* does not depend on eloMethod or eloK: two runs on the same scores that
\* differ only in the options their method does not use return the same
\* sequence.
C24_OptionIndependence ==
  pc = "calls" =>
    \A i \in 1..Len(calls) : \A j \in 1..Len(calls) :
      (calls[i].scores = calls[j].scores
         /\ SameUsedOptions(calls[i].options, calls[j].options))
        => calls[i].leaderboard = calls[j].leaderboard

\* two Elo runs on the same two days that differ in both adjustments return
\* the same three rows, the first of them with a rating above 1000
C24_Witness ==
  /\ pc = "calls" /\ Len(calls) = 2
  /\ calls[1].scores = calls[2].scores /\ Len(calls[1].scores) = 2
  /\ calls[1].options.statsMethod = "Elo"
  /\ SameUsedOptions(calls[1].options, calls[2].options)
  /\ calls[1].options.dayAdjustment # calls[2].options.dayAdjustment
  /\ calls[1].options.bayesAdjustment # calls[2].options.bayesAdjustment
  /\ calls[1].leaderboard = calls[2].leaderboard
  /\ Len(calls[1].leaderboard) = 3
  /\ calls[1].leaderboard[1].rating > Fix(1000)

\* two Average runs that differ in eloMethod and eloK return the same rows
AverageIgnoresEloOptions ==
  /\ pc = "calls" /\ Len(calls) = 2
  /\ calls[1].scores = calls[2].scores /\ Len(calls[1].scores) = 2
  /\ calls[1].options.statsMethod = "Average"
  /\ SameUsedOptions(calls[1].options, calls[2].options)
  /\ calls[1].options.eloMethod # calls[2].options.eloMethod
  /\ calls[1].options.eloK # calls[2].options.eloK
  /\ calls[1].leaderboard = calls[2].leaderboard

-----------------------------------------------------------------------------
(* Properties of fetchChannelMessages *)

\* C25: for every limit and every sequence of page responses,
\* fetchChannelMessages(channelId, limit) returns at most limit messages.
C25_MessageLimit ==
  fetch.pc = "returned" => fetch.messagesLength <= fetch.limit

\* what the loop does keep: it returns less than one page above the limit
LessThanOnePageOver ==
  fetch.pc = "returned" =>
    (fetch.messagesLength = 0 \/ fetch.messagesLength < fetch.limit + PageSize)

\* 200 messages are returned for a limit of 150
OverLimitReached ==
  /\ fetch.pc = "returned"
  /\ fetch.limit = 150
  /\ fetch.messagesLength = 2 * PageSize

AllRateLimited(statuses) == \A i \in 1..Len(statuses) : statuses[i] = "429"

FetchEnded == fetch.pc \in {"returned", "thrown"}

\* the response just received has the given status
Received(status) ==
  /\ Len(fetch'.statuses) = Len(fetch.statuses) + 1
  /\ fetch'.statuses[Len(fetch'.statuses)] = status

\* C29: for each page fetchChannelMessages issues at most 4 HTTP requests,
\* the first attempt and 3 retries; it retries only on status 429; after 4
\* consecutive 429 responses it throws 'Max retries exceeded for fetching
\* messages' and returns no messages; on any other status that is not ok it
\* throws at once, without a retry; and the call ends once a page is empty,
\* a page has fewer than 100 messages, or the collected count reaches limit.
C29_BoundedRetry ==
  /\ [](fetch.requests <= maxRetries + 1)
  /\ [](fetch.requests > 1 =>
          /\ Len(fetch.statuses) >= fetch.requests - 1
          /\ AllRateLimited(SubSeq(fetch.statuses, 1, fetch.requests - 1)))
  /\ []((Len(fetch.statuses) = maxRetries + 1 /\ AllRateLimited(fetch.statuses)) =>
          /\ fetch.pc \in {"retry", "thrown"}
          /\ fetch.pc = "thrown" =>
               fetch.error = "Max retries exceeded for fetching messages")
  /\ ((Len(fetch.statuses) = maxRetries + 1 /\ AllRateLimited(fetch.statuses))
        ~> (fetch.pc = "thrown"))
  /\ [][Received("not ok") =>
          /\ fetch'.pc = "thrown"
          /\ fetch'.error = "Failed to fetch messages"
          /\ fetch'.requests = fetch.requests]_vars
  /\ [][FetchEnded => fetch' = fetch]_vars
  /\ [][Received("ok") =>
          (fetch'.pc = "returned"
             <=> fetch'.messagesLength - fetch.messagesLength < PageSize)]_vars
  /\ ((fetch.pc = "while" /\ fetch.messagesLength >= fetch.limit)
        ~> (fetch.pc = "returned"))
  /\ <>FetchEnded

\* the second page is answered 429 four times: the call has thrown after
\* four requests for it, the 100 messages of the first page are not returned
C29_Witness ==
  /\ fetch.pc = "thrown"
  /\ fetch.error = "Max retries exceeded for fetching messages"
  /\ fetch.pages = 1 /\ fetch.messagesLength = PageSize
  /\ fetch.requests = maxRetries + 1
  /\ fetch.statuses = <<"429", "429", "429", "429">>

\* a page answered after three 429 responses, by the fourth request
AnsweredByLastRetry ==
  /\ fetch.pc = "returned"
  /\ fetch.statuses = <<"429", "429", "429", "ok">>
  /\ fetch.requests = maxRetries + 1

-----------------------------------------------------------------------------
(* Properties of saveWordleResults *)

SaveEnded == pc = "save" /\ save.pc \in {"returned", "thrown"}

\* the positions of the queries of one name, and the queries that failed
QueriesNamed(name) ==
  {i \in 1..Len(save.queries) : save.queries[i].name = name}

FailedQueries == {i \in 1..Len(save.queries) : ~save.queries[i].ok}

\* every upsert of the input was issued and succeeded
EveryUpsertSucceeded ==
  /\ Cardinality(QueriesNamed("UPSERT")) = Len(Flat(save.scores))
  /\ \A i \in QueriesNamed("UPSERT") : save.queries[i].ok

\* the name of the first query that failed
FirstFailed ==
  save.queries[CHOOSE i \in FailedQueries : \A j \in FailedQueries : i <= j].name

\* what the claim says of the value returned
TotalsAddUp ==
  save.pc = "returned" =>
    /\ save.result.total = save.result.new + save.result.updated
    /\ save.result.total = Len(Flat(save.scores))

\* C30 as stated: every call of saveWordleResults issues BEGIN, then exactly
\* one of COMMIT or ROLLBACK; COMMIT is issued only if every upsert succeeded;
\* if any query fails ROLLBACK is issued and the error is rethrown to the
\* caller; the client is released exactly once on every path; on success the
\* returned total equals new + updated and the number of entries of the input.
C30_SaveTransaction ==
  SaveEnded =>
    /\ save.queries # <<>> /\ save.queries[1].name = "BEGIN"
    /\ Cardinality(QueriesNamed("COMMIT") \cup QueriesNamed("ROLLBACK")) = 1
    /\ QueriesNamed("COMMIT") # {} => EveryUpsertSucceeded
    /\ FailedQueries # {} =>
         /\ QueriesNamed("ROLLBACK") # {}
         /\ save.pc = "thrown" /\ save.error = FirstFailed
    /\ save.released = 1
    /\ TotalsAddUp

\* C30: every call of saveWordleResults that obtains a client issues BEGIN
\* first, then COMMIT or ROLLBACK, each at most once and both only when
\* COMMIT itself fails, ROLLBACK then following it; COMMIT is issued only if
\* every upsert succeeded; if any query fails ROLLBACK is issued and an
\* error is thrown to the caller, the error of the query that failed, or
\* that of ROLLBACK when ROLLBACK fails as well; the client is released
\* exactly once on every path; on success the returned total equals new +
\* updated and the number of entries of the input.  A call whose
\* pool.connect() rejects issues no query and has no client to release.
C30_SaveTransactionWithClient ==
  /\ (pc = "save" /\ save.queries # <<>>) => save.queries[1].name = "BEGIN"
  /\ pc = "save" => save.released <= 1
  /\ (SaveEnded /\ save.error = "connect") =>
       (save.queries = <<>> /\ save.released = 0)
  /\ (SaveEnded /\ save.error # "connect") =>
       /\ save.queries # <<>>
       /\ Cardinality(QueriesNamed("COMMIT")) <= 1
       /\ Cardinality(QueriesNamed("ROLLBACK")) <= 1
       /\ QueriesNamed("COMMIT") \cup QueriesNamed("ROLLBACK") # {}
       /\ (QueriesNamed("COMMIT") # {} /\ QueriesNamed("ROLLBACK") # {}) =>
            /\ \A i \in QueriesNamed("COMMIT") : ~save.queries[i].ok
            /\ \A i \in QueriesNamed("COMMIT") : \A j \in QueriesNamed("ROLLBACK") :
                 j = i + 1
       /\ QueriesNamed("COMMIT") # {} => EveryUpsertSucceeded
       /\ FailedQueries # {} =>
            /\ QueriesNamed("ROLLBACK") # {}
            /\ save.pc = "thrown"
            /\ save.error = IF \E i \in QueriesNamed("ROLLBACK") : ~save.queries[i].ok
                            THEN "ROLLBACK" ELSE FirstFailed
       /\ FailedQueries = {} => save.pc = "returned"
       /\ save.released = 1
       /\ TotalsAddUp

\* the second of three upserts fails: ROLLBACK follows, no COMMIT is issued,
\* the error of the upsert is thrown and the client is released once
C30_Witness ==
  /\ SaveEnded /\ save.pc = "thrown"
  /\ Len(Flat(save.scores)) = 3
  /\ [i \in 1..Len(save.queries) |-> save.queries[i].name] =
       <<"BEGIN", "UPSERT", "UPSERT", "ROLLBACK">>
  /\ FailedQueries = {3}
  /\ save.error = "UPSERT"
  /\ save.released = 1

\* a call that returns: three entries saved, one of them a row the table held
SavedReached ==
  /\ SaveEnded /\ save.pc = "returned"
  /\ save.result = [total |-> 3, new |-> 2, updated |-> 1]
  /\ save.released = 1
  /\ save.queries[Len(save.queries)] = [name |-> "COMMIT", ok |-> TRUE]

\* COMMIT fails: ROLLBACK is issued after it
CommitThenRollbackReached ==
  /\ SaveEnded
  /\ QueriesNamed("COMMIT") # {} /\ QueriesNamed("ROLLBACK") # {}

-----------------------------------------------------------------------------
(* Properties of the pairs of a day in calcEloIterated *)

\* a step of the two nested loops: the pair it.pair of day it.day is visited
PairStep == it.pc = "pairs" /\ it'.pc = "pairs"

\* the two entries of the pair being visited
PairPlayer == it.scores[it.day][(it.pair \div Len(it.scores[it.day])) + 1]
PairOpponent == it.scores[it.day][(it.pair % Len(it.scores[it.day])) + 1]

\* the position of a player in the universe, 0 when it is not there
Position(player) ==
  IF \E i \in 1..Len(it.allPlayers) : it.allPlayers[i] = player
  THEN CHOOSE i \in 1..Len(it.allPlayers) : it.allPlayers[i] = player
  ELSE 0

\* the pair being visited is one of two distinct participants of the universe
PairOfParticipants ==
  /\ PlayerOf(PairPlayer) # PlayerOf(PairOpponent)
  /\ Position(PlayerOf(PairPlayer)) # 0
  /\ Position(PlayerOf(PairOpponent)) # 0

\* the players of a day that belong to the universe
Participants(d) ==
  {PlayerOf(it.scores[d][i]) : i \in 1..Len(it.scores[d])}
    \cap {it.allPlayers[i] : i \in 1..Len(it.allPlayers)}

\* C26: within one day calcEloIterated applies a rating update for every
\* ordered pair (i, j) of distinct participants, so that each unordered pair
\* is updated twice, once in each direction, and every update reads the
\* ratings as all earlier updates of the same day have left them, not the
\* ratings at the start of the day.
C26_PairwiseOrder ==
  /\ [][(it.pc = "days" /\ it'.pc = "pairs") =>
          /\ it'.pair = 0
          /\ it'.currentElos = it.eloOverTime[Len(it.eloOverTime)]]_vars
  /\ [][PairStep =>
          /\ it'.day = it.day
          /\ it'.pair = it.pair + 1
          /\ IF PairOfParticipants
             THEN LET a == Position(PlayerOf(PairPlayer))
                      b == Position(PlayerOf(PairOpponent))
                      new == calculateElo(it.currentElos[a], it.currentElos[b],
                                          points(ScoreOf(PairPlayer),
                                                 ScoreOf(PairOpponent), it.maxScore),
                                          it.k)
                  IN it'.currentElos =
                       [i \in 1..Len(it.allPlayers) |->
                          IF i = a THEN new[1] ELSE IF i = b THEN new[2]
                          ELSE it.currentElos[i]]
             ELSE it'.currentElos = it.currentElos]_vars
  /\ [][(it.pc = "pairs" /\ it'.pc = "days") =>
          /\ it.pair = Len(it.scores[it.day]) * Len(it.scores[it.day])
          /\ it'.eloOverTime[Len(it'.eloOverTime)] = it.currentElos]_vars

\* the nine pairs of a day of three participants have been visited, the pair
\* (Bob, Alice) after the pair (Alice, Bob) had moved both ratings, and no
\* rating is the one the day started with
C26_Witness ==
  /\ it.pc = "pairs"
  /\ Len(it.allPlayers) = 3
  /\ Cardinality(Participants(it.day)) = 3
  /\ it.pair = 9
  /\ \A i \in 1..3 : it.currentElos[i] # it.eloOverTime[Len(it.eloOverTime)][i]

RECURSIVE KnownEntries(_)
KnownEntries(day) ==
  IF day = <<>> THEN <<>>
  ELSE IF Position(PlayerOf(Head(day))) = 0 THEN KnownEntries(Tail(day))
  ELSE <<Head(day)>> \o KnownEntries(Tail(day))

\* C28: a player who does not appear in a day's group has the same rating in
\* that day's snapshot as in the previous snapshot, and a day entry whose
\* player is not in the allPlayers list changes no rating at all.
C28_DayFrame ==
  /\ [](it.pc # "idle" =>
          \A t \in 2..Len(it.eloOverTime) :
            /\ \A i \in 1..Len(it.allPlayers) :
                 it.allPlayers[i] \notin Participants(t - 1) =>
                   it.eloOverTime[t][i] = it.eloOverTime[t - 1][i]
            /\ it.eloOverTime[t] =
                 DayUpdate(it.eloOverTime[t - 1], KnownEntries(it.scores[t - 1]), 0,
                           it.allPlayers, it.k, it.maxScore))
  /\ [][(PairStep /\ (Position(PlayerOf(PairPlayer)) = 0
                        \/ Position(PlayerOf(PairOpponent)) = 0)) =>
          it'.currentElos = it.currentElos]_vars

\* Carol sits out the second of two days: her rating, moved by the first
\* day, is the same in the last two snapshots while the other two moved
C28_Witness ==
  /\ it.pc = "returned"
  /\ it.allPlayers = <<"Alice", "Bob", "Carol">>
  /\ Len(it.eloOverTime) = 3
  /\ Participants(2) = {"Alice", "Bob"}
  /\ it.eloOverTime[3][3] = it.eloOverTime[2][3]
  /\ it.eloOverTime[3][3] # Fix(1000)
  /\ it.eloOverTime[3][1] # it.eloOverTime[2][1]
  /\ it.eloOverTime[3][2] # it.eloOverTime[2][2]

\* Carol is not in the universe: the day that lists her next to Alice and
\* Bob has been processed and moved their two ratings
OutsiderReached ==
  /\ it.pc = "returned"
  /\ it.allPlayers = <<"Alice", "Bob">>
  /\ Len(it.scores) = 1 /\ Len(it.scores[1]) = 3
  /\ it.eloOverTime[2][1] # Fix(1000)

====
